---- MODULE Spec2Model ----
(***************************************************************************)
(* A model of the Rust-RayTracer core (src/src/*.rs): the vector algebra,  *)
(* the animation transform of rays, the sphere primitive, the Scene        *)
(* queries and the recursive radiance estimator.                           *)
(*                                                                         *)
(* Number representation.  Geometry (positions, directions, times, angles) *)
(* is carried by integers: lengths are counted in units of 5e-5, half the  *)
(* nudge distance 1e-4 (so the nudge is 2), directions are dimensionless,  *)
(* angles are degrees and multiples of 90 wherever a rotation is evaluated.*)
(* Square roots and divisions of geometry are exact: Sqrt and ExactDiv     *)
(* have no value outside the exact domain, so the model never rounds.      *)
(* Radiance and light intensities are extended rationals <<n, d>> with     *)
(* d >= 0: <<1,0>> is +inf, <<-1,0>> is -inf and <<0,0>> is NaN, which is   *)
(* how IEEE-754 division by zero behaves in the f64 code.                  *)
(*                                                                         *)
(* Rust evaluates an argument once, before the call.  The operators whose  *)
(* parameters end in an underscore do the same through Eval.               *)
(***************************************************************************)
EXTENDS Integers, Sequences, FiniteSets, TLC

VARIABLES
    \* --- animation transform of a ray (ray.rs) ---
    an_ray,          \* the ray handed to apply_animations / reverse_animations
    an_animations,   \* the component's Vec<Animation> (Animatable)
    an_time,         \* the time of the evaluation
    an_pc,           \* "start" | "applied" | "reversed" | "round"
    an_applied,      \* ray.apply_animations(animations, time)
    an_reversed,     \* ray.reverse_animations(animations, time)
    an_round,        \* applied.reverse_animations(animations, time)
    \* --- Scene (scene.rs) ---
    objects,                 \* Scene.objects
    lights,                  \* Scene.lights
    light_objects,           \* Scene.light_objects
    show_emissive_surfaces,  \* Scene.show_emissive_surfaces
    last_show_arg,           \* history: the argument of the last set_show_emissive_surfaces
                             \* call made on the scene, None before the first one
    query,                   \* the last call recorded (a Scene query, or a call of a function
                             \* that reads no Scene), with its arguments and its result
    \* --- recursive radiance evaluation (scene.rs) ---
    stack,           \* call stack of compute_intensity / _mirror / _transparent / _indirect
    ret,             \* value returned by the callee that just finished
    status,          \* "idle" | "running" | "done" | "panic"
    top,             \* the top-level call: entry function, counter, ray, intersection
    nqueries,        \* scene queries (compute_intersection, compute_shadows) made so far
    \* --- the samples of one pixel (lib.rs:89-114) ---
    px_config,       \* Config of the render: nb_rays, nb_iter_max, and the time of the frame
    px_samples,      \* per sample of the parallel iterator: position, ray, hit, radiance
    px_partials,     \* partial sums of the parallel sum that are not combined yet
    px_intensity     \* the pixel's `intensity` after the division, None until it is computed

animVars  == <<an_ray, an_animations, an_time, an_pc, an_applied, an_reversed, an_round>>
sceneVars == <<objects, lights, light_objects, show_emissive_surfaces, last_show_arg>>
traceVars == <<stack, ret, status, top, nqueries>>
pixelVars == <<px_config, px_samples, px_partials, px_intensity>>
vars      == <<animVars, sceneVars, query, traceVars, pixelVars>>

----------------------------------------------------------------------------
(* Bounds of the model *)

MaxTime  == 2     \* evaluation times are 0..MaxTime
MaxAnims == 2     \* longest animation list of a component
MaxObjects == 2   \* most objects added to a Scene
MaxLights == 2    \* most point lights added to a Scene
MaxLightObjects == 1   \* most light objects added to a Scene
MaxIter == 2      \* largest nb_iter_max of a top-level call
MaxRays == 2      \* largest nb_rays, the samples of a pixel

----------------------------------------------------------------------------
(* f64 scalars of the geometry: exact integer arithmetic *)

NoValue == CHOOSE none \in {} : TRUE

\* Eval({ e : x \in {a} }) is e with x standing for the value of a, which is
\* evaluated once, as Rust evaluates an argument or a `let`
Eval(S) == CHOOSE r \in S : TRUE

ExactDiv(a, b) ==
    Eval({
        IF d # 0 /\ n % (IF d < 0 THEN -d ELSE d) = 0
                              THEN (IF d < 0 THEN (-n) \div (-d) ELSE n \div d)
                              ELSE NoValue
        : n \in {a}, d \in {b} })

Abs(a) == Eval({ IF n < 0 THEN -n ELSE n : n \in {a} })

\* f64::sqrt on the perfect squares
Sqrt(a) == Eval({ (CHOOSE k \in 0..n : k * k = n) : n \in {a} })

\* f64::max
fmax(a, b) == Eval({ IF n >= d THEN n ELSE d : n \in {a}, d \in {b} })

\* theta_rad.cos() and theta_rad.sin() for theta_deg a multiple of 90
Cos(theta_deg) == CASE theta_deg % 360 = 0   -> 1
                    [] theta_deg % 360 = 90  -> 0
                    [] theta_deg % 360 = 180 -> -1
                    [] theta_deg % 360 = 270 -> 0

Sin(theta_deg) == CASE theta_deg % 360 = 0   -> 0
                    [] theta_deg % 360 = 90  -> 1
                    [] theta_deg % 360 = 180 -> 0
                    [] theta_deg % 360 = 270 -> -1

----------------------------------------------------------------------------
(* f64 scalars of radiance: extended rationals <<n, d>>, d >= 0, in lowest *)
(* terms; <<1, 0>> = +inf, <<-1, 0>> = -inf, <<0, 0>> = NaN                 *)

RECURSIVE Gcd(_, _)
Gcd(a, b) == IF b = 0 THEN a ELSE Gcd(b, a % b)

Sign(a) == Eval({ IF n > 0 THEN 1 ELSE IF n < 0 THEN -1 ELSE 0 : n \in {a} })

RNorm(n, d) ==
    Eval({
        IF den = 0 THEN <<Sign(num), 0>>
        ELSE Eval({
                 <<(IF den < 0 THEN -num ELSE num) \div g, Abs(den) \div g>>
            : g \in {Gcd(Abs(num), Abs(den))} })
        : num \in {n}, den \in {d} })

R(k) == <<k, 1>>
RZero == <<0, 1>>
ROne == <<1, 1>>
RNaN == <<0, 0>>
RIsNaN(a) == a[2] = 0 /\ a[1] = 0
RIsInf(a) == a[2] = 0 /\ a[1] # 0

\* products and sums cancel common factors first, to keep the integers small
RMul(a, b) ==
    Eval({
        IF p[2] = 0 \/ q[2] = 0 THEN <<Sign(p[1]) * Sign(q[1]), 0>>
        ELSE Eval({
                 <<(p[1] \div g1) * (q[1] \div g2), (p[2] \div g2) * (q[2] \div g1)>>
            : g1 \in {Gcd(Abs(p[1]), q[2])}, g2 \in {Gcd(Abs(q[1]), p[2])} })
        : p \in {a}, q \in {b} })
RInv(b) == Eval({ IF q[1] < 0 THEN <<-q[2], -q[1]>> ELSE <<q[2], q[1]>> : q \in {b} })
RDiv(a, b) ==
    Eval({
        IF q[2] = 0 \/ q[1] = 0 THEN RNorm(p[1] * q[2], p[2] * q[1])
        ELSE RMul(p, RInv(q))
        : p \in {a}, q \in {b} })
RAdd(a, b) ==
    Eval({
        IF RIsNaN(p) \/ RIsNaN(q) THEN RNaN
        ELSE IF RIsInf(p) THEN (IF RIsInf(q) /\ q[1] # p[1] THEN RNaN ELSE p)
        ELSE IF RIsInf(q) THEN q
        ELSE Eval({
                 RNorm(p[1] * (q[2] \div g) + q[1] * (p[2] \div g), (p[2] \div g) * q[2])
            : g \in {Gcd(p[2], q[2])} })
        : p \in {a}, q \in {b} })
RNeg(a) == Eval({ <<-p[1], p[2]>> : p \in {a} })
RSub(a, b) == RAdd(a, RNeg(b))

\* a <= b of f64: false when either side is NaN
RLe(a, b) ==
    Eval({
        IF RIsNaN(p) \/ RIsNaN(q) THEN FALSE
        ELSE IF RIsInf(p) THEN (p[1] = -1 \/ q = p)
        ELSE IF RIsInf(q) THEN q[1] = 1
        ELSE Eval({
                 p[1] * (q[2] \div g) <= q[1] * (p[2] \div g)
            : g \in {Gcd(p[2], q[2])} })
        : p \in {a}, q \in {b} })
RLt(a, b) == Eval({ RLe(p, q) /\ p # q : p \in {a}, q \in {b} })

\* f64::max: the other operand when one is NaN
RMax(a, b) ==
    Eval({
        IF RIsNaN(p) THEN q
        ELSE IF RIsNaN(q) THEN p
        ELSE IF RLe(q, p) THEN p ELSE q
        : p \in {a}, q \in {b} })

\* f64::powf / powi for an exponent that is a natural number
RECURSIVE RPow(_, _)
RPow(a, e) == Eval({ IF n = 0 THEN ROne ELSE RMul(p, RPow(p, n - 1)) : p \in {a}, n \in {e} })

\* f64::sqrt of a rational that is the square of an integer, NaN below zero
RSqrt(a) ==
    Eval({
        IF RIsNaN(p) \/ p[1] < 0 THEN RNaN
        ELSE IF RIsInf(p) THEN p
        ELSE RNorm(Sqrt(p[1]), Sqrt(p[2]))
        : p \in {a} })

\* std::f64::consts::PI, as the rational 22/7
PI == <<22, 7>>

----------------------------------------------------------------------------
(* utils.rs: Vector *)

Vector_new(x, y, z) == <<x, y, z>>
new_eq(a) == <<a, a, a>>

Vector_add(u, v) == Eval({ <<p[1] + q[1], p[2] + q[2], p[3] + q[3]>> : p \in {u}, q \in {v} })
Vector_sub(u, v) == Eval({ <<p[1] - q[1], p[2] - q[2], p[3] - q[3]>> : p \in {u}, q \in {v} })
Vector_mul(u, k) == Eval({ <<p[1] * n, p[2] * n, p[3] * n>> : p \in {u}, n \in {k} })
Vector_div(u, k) ==
    Eval({ <<ExactDiv(p[1], n), ExactDiv(p[2], n), ExactDiv(p[3], n)>> : p \in {u}, n \in {k} })

norm_sq(u) == Eval({ p[1] * p[1] + p[2] * p[2] + p[3] * p[3] : p \in {u} })
norm(u) == Sqrt(norm_sq(u))
dot(u, v) == Eval({ p[1] * q[1] + p[2] * q[2] + p[3] * q[3] : p \in {u}, q \in {v} })
\* a cross product with a sign slip in its second component
cross_slip(u, v) ==
    Eval({
        <<p[2] * q[3] - p[3] * q[2], p[3] * q[1] + p[1] * q[3], p[1] * q[2] - p[2] * q[1]>>
        : p \in {u}, q \in {v} })

\* utils.rs:49-54
cross(u, v) ==
    Eval({
        <<p[2] * q[3] - p[3] * q[2], p[3] * q[1] - p[1] * q[3], p[1] * q[2] - p[2] * q[1]>>
        : p \in {u}, q \in {v} })
Vector_normalize(u) == Eval({ Vector_div(p, norm(p)) : p \in {u} })

Vector_rotate_x(v, theta_deg) ==
    <<v[1],
      Cos(theta_deg) * v[2] - Sin(theta_deg) * v[3],
      Sin(theta_deg) * v[2] + Cos(theta_deg) * v[3]>>

\* a rotation about y that leaves x as it is
Vector_rotate_y_xkept(v, theta_deg) ==
    <<v[1],
      v[2],
      (-Sin(theta_deg)) * v[1] + Cos(theta_deg) * v[3]>>

\* utils.rs:78-86
Vector_rotate_y(v, theta_deg) ==
    <<Cos(theta_deg) * v[1] + Sin(theta_deg) * v[3],
      v[2],
      (-Sin(theta_deg)) * v[1] + Cos(theta_deg) * v[3]>>

Vector_rotate_z(v, theta_deg) ==
    <<Cos(theta_deg) * v[1] - Sin(theta_deg) * v[2],
      Sin(theta_deg) * v[1] + Cos(theta_deg) * v[2],
      v[3]>>

----------------------------------------------------------------------------
(* animate.rs: Animation *)

Animation_new(start_time, end_time, translation, scale, rotation_x, rotation_center_x, rotation_y, rotation_center_y, rotation_z, rotation_center_z) ==
    [start_time |-> start_time, end_time |-> end_time, translation |-> translation,
     scale |-> scale,
     rotation_x |-> rotation_x, rotation_center_x |-> rotation_center_x,
     rotation_y |-> rotation_y, rotation_center_y |-> rotation_center_y,
     rotation_z |-> rotation_z, rotation_center_z |-> rotation_center_z]

Animation_translation(start_time, end_time, translation) ==
    Animation_new(start_time, end_time, translation, 1,
                  0, new_eq(0), 0, new_eq(0), 0, new_eq(0))

Animation_scale(start_time, end_time, scale) ==
    Animation_new(start_time, end_time, new_eq(0), scale,
                  0, new_eq(0), 0, new_eq(0), 0, new_eq(0))

Animation_rotation_x(start_time, end_time, rotation_x, rotation_center_x) ==
    Animation_new(start_time, end_time, new_eq(0), 1,
                  rotation_x, rotation_center_x, 0, new_eq(0), 0, new_eq(0))

Animation_rotation_y(start_time, end_time, rotation_y, rotation_center_y) ==
    Animation_new(start_time, end_time, new_eq(0), 1,
                  0, new_eq(0), rotation_y, rotation_center_y, 0, new_eq(0))

Animation_rotation_z(start_time, end_time, rotation_z, rotation_center_z) ==
    Animation_new(start_time, end_time, new_eq(0), 1,
                  0, new_eq(0), 0, new_eq(0), rotation_z, rotation_center_z)

----------------------------------------------------------------------------
(* ray.rs: Ray and its animation transform *)

Ray_new(origin, direction) == [origin |-> origin, direction |-> direction]

get_point(r_, t_) ==
    Eval({
        Vector_add(r.origin, Vector_mul(r.direction, t))
        : r \in {r_}, t \in {t_} })

Ray_normalize(r_) ==
    Eval({
        [origin |-> r.origin, direction |-> Vector_normalize(r.direction)]
        : r \in {r_} })

translate(r_, vec_) ==
    Eval({
        [origin |-> Vector_add(r.origin, vec), direction |-> r.direction]
        : r \in {r_}, vec \in {vec_} })

Ray_rotate_x(r_, theta, rotation_center_) ==
    Eval({
        [origin    |-> Vector_add(Vector_rotate_x(Vector_sub(r.origin, rotation_center), theta),
                                  rotation_center),
         direction |-> Vector_rotate_x(r.direction, theta)]
        : r \in {r_}, rotation_center \in {rotation_center_} })

Ray_rotate_y(r_, theta, rotation_center_) ==
    Eval({
        [origin    |-> Vector_add(Vector_rotate_y(Vector_sub(r.origin, rotation_center), theta),
                                  rotation_center),
         direction |-> Vector_rotate_y(r.direction, theta)]
        : r \in {r_}, rotation_center \in {rotation_center_} })

Ray_rotate_z(r_, theta, rotation_center_) ==
    Eval({
        [origin    |-> Vector_add(Vector_rotate_z(Vector_sub(r.origin, rotation_center), theta),
                                  rotation_center),
         direction |-> Vector_rotate_z(r.direction, theta)]
        : r \in {r_}, rotation_center \in {rotation_center_} })

\* ray.rs:276, the test that makes the loop `continue`
skipped_degenerateIgnored(a, time) == a.start_time >= time
skipped(a, time) == a.start_time >= time \/ a.start_time > a.end_time

\* ray.rs:284-289, progress as the fraction <<numerator, denominator>>
progress(a, time) ==
    IF a.end_time > time
    THEN <<time - a.start_time, a.end_time - a.start_time>>
    ELSE <<1, 1>>

\* x * progress for an f64 x of the geometry
times_progress(x, pr) == ExactDiv(x * pr[1], pr[2])

\* a transform that also stretches the translation by the scale
animate_once_scaled(r_, a_, time) ==
    Eval({
        LET pr == progress(a, time) IN
        Ray_rotate_z(
            Ray_rotate_y(
                Ray_rotate_x(
                    translate(r, <<times_progress(a.translation[1] * a.scale, pr),
                                   times_progress(a.translation[2] * a.scale, pr),
                                   times_progress(a.translation[3] * a.scale, pr)>>),
                    times_progress(a.rotation_x, pr), a.rotation_center_x),
                times_progress(a.rotation_y, pr), a.rotation_center_y),
            times_progress(a.rotation_z, pr), a.rotation_center_z)
        : r \in {r_}, a \in {a_} })

\* ray.rs:291-294, the transform of one animation, applied to the ray r
animate_once(r_, a_, time) ==
    Eval({
        LET pr == progress(a, time) IN
        Ray_rotate_z(
            Ray_rotate_y(
                Ray_rotate_x(
                    translate(r, <<times_progress(a.translation[1], pr),
                                   times_progress(a.translation[2], pr),
                                   times_progress(a.translation[3], pr)>>),
                    times_progress(a.rotation_x, pr), a.rotation_center_x),
                times_progress(a.rotation_y, pr), a.rotation_center_y),
            times_progress(a.rotation_z, pr), a.rotation_center_z)
        : r \in {r_}, a \in {a_} })

\* ray.rs:275-296, the loop: every active animation overwrites cur_ray with the
\* transform of `self`
RECURSIVE apply_loop(_, _, _, _, _)
apply_loop(self_, cur_ray_, animations, time, i) ==
    Eval({
        IF i > Len(animations) THEN cur_ray
        ELSE IF skipped(animations[i], time)
             THEN apply_loop(self, cur_ray, animations, time, i + 1)
             ELSE apply_loop(self, animate_once(self, animations[i], time), animations, time, i + 1)
        : self \in {self_}, cur_ray \in {cur_ray_} })

apply_animations(self, animations, time) == apply_loop(self, self, animations, time, 1)

\* ray.rs:308-315
a_reverse(a_) ==
    Eval({
        [a EXCEPT !.rotation_x = a.rotation_x * (-1),
                  !.rotation_y = a.rotation_y * (-1),
                  !.rotation_z = a.rotation_z * (-1),
                  !.translation = Vector_mul(a.translation, -1)]
        : a \in {a_} })

reverse_animations(self, animations, time) ==
    apply_animations(self, [i \in 1..Len(animations) |-> a_reverse(animations[i])], time)

----------------------------------------------------------------------------
(* Option<T>: None is the empty sequence, Some(x) is <<x>> *)

None == <<>>
Some(x) == <<x>>
is_some(o) == Len(o) = 1
unwrap(o) == o[1]

----------------------------------------------------------------------------
(* utils.rs: Color and Material *)

Color_new(r, g, b) == <<r, g, b>>
Color_black == <<0, 0, 0>>
Color_white == <<1, 1, 1>>
Color_red   == <<1, 0, 0>>

Material_new(color, mirror, specular_color, transparent, n_object, emissive, emissivity, phong, phong_exponent) ==
    [color |-> color, mirror |-> mirror, specular_color |-> specular_color,
     transparent |-> transparent, n_object |-> n_object,
     emissive |-> emissive, emissivity |-> emissivity,
     phong |-> phong, phong_exponent |-> phong_exponent]

create_mirror(specular_color) ==
    Material_new(Color_black, TRUE, specular_color, FALSE, 1, FALSE, 0, FALSE, 1)

create_transparent(specular_color, n_object) ==
    Material_new(Color_black, FALSE, specular_color, TRUE, n_object, FALSE, 0, FALSE, 1)

create_emissive(color, emissivity) ==
    Material_new(color, FALSE, Color_black, FALSE, 1, TRUE, emissivity, FALSE, 1)

create_diffuse(color) ==
    Material_new(color, FALSE, Color_black, FALSE, 1, FALSE, 0, FALSE, 1)

create_phong(color, specular_color, phong_exponent) ==
    Material_new(color, FALSE, specular_color, FALSE, 1, FALSE, 0, TRUE, phong_exponent)

----------------------------------------------------------------------------
(* intersection.rs *)

\* the nudge distance 0.0001, two units of length of the model
Nudge == 2

Intersection_new(point, normal, material) ==
    [point |-> point, normal |-> normal, material |-> material]

get_point_nudged(inter_) ==
    Eval({
        Vector_add(inter.point, Vector_mul(inter.normal, Nudge))
        : inter \in {inter_} })
get_point_nudged_neg(inter_) ==
    Eval({
        Vector_sub(inter.point, Vector_mul(inter.normal, Nudge))
        : inter \in {inter_} })

get_inter_nudged(inter_) ==
    Eval({
        [point |-> Vector_add(inter.point, Vector_mul(inter.normal, Nudge)),
         normal |-> inter.normal, material |-> inter.material]
        : inter \in {inter_} })

get_inter_nudged_neg(inter_) ==
    Eval({
        [point |-> Vector_sub(inter.point, Vector_mul(inter.normal, Nudge)),
         normal |-> inter.normal, material |-> inter.material]
        : inter \in {inter_} })

----------------------------------------------------------------------------
(* object/sphere.rs and light.rs *)

Sphere_new(center, radius, material) ==
    [center |-> center, radius |-> radius, material |-> material, animations |-> <<>>]

\* an add_animation that puts the animation in front of the earlier ones
with_animation_in_front(component, animation) ==
    [component EXCEPT !.animations = <<animation>> \o component.animations]

\* Animatable::add_animation on a component value (before it is moved into the Scene)
with_animation(component, animation) ==
    [component EXCEPT !.animations = Append(component.animations, animation)]

get_animations(component) == component.animations
get_material(obj) == obj.material
get_center(obj) == obj.center

\* an intersection that always takes the larger root
Sphere_intersection_far(self_, ray_) ==
    Eval({
        LET vector_co == Vector_sub(ray.origin, self.center)
            a == norm_sq(ray.direction)
            b == 2 * dot(ray.direction, vector_co)
            c == norm_sq(vector_co) - self.radius * self.radius
            delta == b * b - 4 * a * c
        IN  IF delta >= 0
            THEN LET t2 == ExactDiv((-b) + Sqrt(delta), 2 * a)
                 IN  IF t2 >= 0
                     THEN LET point == get_point(ray, t2)
                              normal == Vector_normalize(Vector_sub(point, self.center))
                          IN  Some(Intersection_new(point, normal, get_material(self)))
                     ELSE None
            ELSE None
        : self \in {self_}, ray \in {ray_} })

\* sphere.rs:39-69
Sphere_intersection(self_, ray_) ==
    Eval({
        LET vector_co == Vector_sub(ray.origin, self.center)
            a == norm_sq(ray.direction)
            b == 2 * dot(ray.direction, vector_co)
            c == norm_sq(vector_co) - self.radius * self.radius
            delta == b * b - 4 * a * c
        IN  IF delta >= 0
            THEN LET t1 == ExactDiv((-b) - Sqrt(delta), 2 * a)
                     t2 == ExactDiv((-b) + Sqrt(delta), 2 * a)
                 IN  IF t2 >= 0
                     THEN LET t == IF t1 < 0 THEN t2 ELSE t1
                              point == get_point(ray, t)
                              normal == Vector_normalize(Vector_sub(point, self.center))
                          IN  Some(Intersection_new(point, normal, get_material(self)))
                     ELSE None
            ELSE None
        : self \in {self_}, ray \in {ray_} })

Light_new(center, intensity) ==
    [center |-> center, intensity |-> intensity, animations |-> <<>>]

\* camera.rs:24-26
Camera_new_default ==
    [center |-> <<0, 0, 0>>, direction |-> <<0, 0, 0>>, up |-> <<0, 0, 0>>,
     fov_degrees |-> 10, focal |-> 10, height |-> 500, width |-> 500, animations |-> <<>>]

----------------------------------------------------------------------------
(* scene.rs: the two queries *)

\* scene.rs:56-59, one iteration: the object's test and the ray the distance is taken from
object_test(obj_, ray_, time) ==
    Eval({
        Eval({
            [col |-> Sphere_intersection(obj, ray_rest),
             ray |-> apply_animations(ray_rest, get_animations(obj), time)]
            : ray_rest \in {reverse_animations(ray, get_animations(obj), time)} })
        : obj \in {obj_}, ray \in {ray_} })

\* scene.rs:62, the squared distance the loop compares
hit_norm_sq(test_) ==
    Eval({
        norm_sq(Vector_sub(unwrap(test.col).point, test.ray.origin))
        : test \in {test_} })

\* scene.rs:62, `<= current_min_norm_sq`; cur.min = None stands for f64::MAX
closer(test_, cur_) ==
    Eval({
        cur.min = None \/ hit_norm_sq(test) <= unwrap(cur.min)
        : test \in {test_}, cur \in {cur_} })

\* scene.rs:52-68; `by` records the index of the object that gave current_inter
RECURSIVE intersection_loop(_, _, _, _, _)
intersection_loop(objs, ray, time, i, cur) ==
    IF i > Len(objs) THEN cur
    ELSE Eval({
             IF is_some(test.col) /\ closer(test, cur)
             THEN intersection_loop(objs, ray, time, i + 1,
                      [min |-> Some(hit_norm_sq(test)), inter |-> test.col, by |-> i])
             ELSE intersection_loop(objs, ray, time, i + 1, cur)
             : test \in {object_test(objs[i], ray, time)} })

\* a scan that goes on through the light objects
compute_intersection_full_and_lamps(objs, ray, time) ==
    intersection_loop(objs \o light_objects, ray, time, 1,
                      [min |-> None, inter |-> None, by |-> 0])

compute_intersection_full(objs, ray, time) ==
    intersection_loop(objs, ray, time, 1, [min |-> None, inter |-> None, by |-> 0])

compute_intersection(objs, ray, time) == compute_intersection_full(objs, ray, time).inter

\* scene.rs:74-78, the light's animated position and the shadow ray
light_position(light, time) ==
    apply_animations(Ray_new(light.center, new_eq(0)), get_animations(light), time).origin

shadow_ray(point_, light_, time) ==
    Eval({
        Eval({
            Ray_normalize(Ray_new(point, Vector_sub(fake_ray.origin, point)))
            : fake_ray \in {apply_animations(Ray_new(light.center, point),
                                             get_animations(light), time)} })
        : point \in {point_}, light \in {light_} })

\* scene.rs:89, the distance an occluder is compared with
occlusion_norm_sq(point, light, time) == norm_sq(Vector_sub(point, light.center))

\* scene.rs:73-96
compute_shadows(objs, point_, light_, time) ==
    Eval({
        \E ray \in {shadow_ray(point, light, time)} :
            \A i \in 1..Len(objs) :
                \E test \in {object_test(objs[i], ray, time)} :
                    ~(is_some(test.col)
                      /\ hit_norm_sq(test) <= occlusion_norm_sq(point, light, time))
        : point \in {point_}, light \in {light_} })

----------------------------------------------------------------------------
(* utils.rs: Vector and Color carrying radiance (components are rationals) *)

RV(v) == Eval({ <<R(p[1]), R(p[2]), R(p[3])>> : p \in {v} })
RV_new_eq(a) == Eval({ <<p, p, p>> : p \in {a} })
RV_zero == RV_new_eq(RZero)
RV_add(u, v) == Eval({ <<RAdd(p[1], q[1]), RAdd(p[2], q[2]), RAdd(p[3], q[3])>> : p \in {u}, q \in {v} })
RV_mul(u, k) == Eval({ <<RMul(p[1], q), RMul(p[2], q), RMul(p[3], q)>> : p \in {u}, q \in {k} })
RV_mul_color(u, c) ==
    Eval({ <<RMul(p[1], q[1]), RMul(p[2], q[2]), RMul(p[3], q[3])>> : p \in {u}, q \in {c} })
RV_div(u, k) == Eval({ <<RDiv(p[1], q), RDiv(p[2], q), RDiv(p[3], q)>> : p \in {u}, q \in {k} })
RV_max(u, v) == Eval({ <<RMax(p[1], q[1]), RMax(p[2], q[2]), RMax(p[3], q[3])>> : p \in {u}, q \in {v} })

Color_mul(c, k) == RV_mul(c, k)
Color_add(c, e) == RV_add(c, e)

\* a rational that is an integer, as a scalar of the geometry
RToInt(a) == IF a[2] = 1 THEN a[1] ELSE NoValue

----------------------------------------------------------------------------
(* ray.rs: reflect, refract, the random rays *)

\* ray.rs:80-85
reflect(self_, intersection_) ==
    Eval({
        LET direction == Vector_sub(self.direction,
                             Vector_mul(Vector_mul(intersection.normal, 2),
                                        dot(self.direction, intersection.normal)))
        IN  Ray_normalize(Ray_new(get_point_nudged(intersection), direction))
        : self \in {self_}, intersection \in {intersection_} })

\* Snell's law that refracts only for a positive radical
snell_strict(self_, origin, normal_, n_1, n_2) ==
    Eval({
        Eval({
            Eval({
                IF RLt(RZero, radical)
                THEN Eval({
                         LET comp(i) == RToInt(RSub(RMul(R(self.direction[i]), ratio),
                                                    RMul(R(normal[i]), k)))
                         IN  Some(Ray_normalize(Ray_new(origin, <<comp(1), comp(2), comp(3)>>)))
                         : k \in {RAdd(RMul(ratio, R(scalar)), RSqrt(radical))} })
                ELSE None
                : radical \in {RSub(ROne, RMul(RMul(ratio, ratio), R(1 - scalar * scalar)))} })
            : ratio \in {RDiv(R(n_1), R(n_2))}, scalar \in {dot(self.direction, normal)} })
        : self \in {self_}, normal \in {normal_} })

\* Snell's direction with the square root subtracted
snell_minus(self_, origin, normal_, n_1, n_2) ==
    Eval({
        Eval({
            Eval({
                IF RLe(RZero, radical)
                THEN Eval({
                         LET comp(i) == RToInt(RSub(RMul(R(self.direction[i]), ratio),
                                                    RMul(R(normal[i]), k)))
                         IN  Some(Ray_normalize(Ray_new(origin, <<comp(1), comp(2), comp(3)>>)))
                         : k \in {RSub(RMul(ratio, R(scalar)), RSqrt(radical))} })
                ELSE None
                : radical \in {RSub(ROne, RMul(RMul(ratio, ratio), R(1 - scalar * scalar)))} })
            : ratio \in {RDiv(R(n_1), R(n_2))}, scalar \in {dot(self.direction, normal)} })
        : self \in {self_}, normal \in {normal_} })

\* ray.rs:110-113 and 127-131: Snell's direction for the indices n_1 -> n_2,
\* None when the radical is negative
snell(self_, origin, normal_, n_1, n_2) ==
    Eval({
        Eval({
            Eval({
                IF RLe(RZero, radical)
                THEN Eval({
                         LET comp(i) == RToInt(RSub(RMul(R(self.direction[i]), ratio),
                                                    RMul(R(normal[i]), k)))
                         IN  Some(Ray_normalize(Ray_new(origin, <<comp(1), comp(2), comp(3)>>)))
                         : k \in {RAdd(RMul(ratio, R(scalar)), RSqrt(radical))} })
                ELSE None
                : radical \in {RSub(ROne, RMul(RMul(ratio, ratio), R(1 - scalar * scalar)))} })
            : ratio \in {RDiv(R(n_1), R(n_2))}, scalar \in {dot(self.direction, normal)} })
        : self \in {self_}, normal \in {normal_} })

\* ray.rs:142-167
compute_fresnel(self, normal, n_air, n_object) ==
    Eval({
        Eval({
            RSub(ROne, RAdd(k0, RMul(RSub(ROne, k0), RPow(RSub(ROne, i_dot_normal), 5))))
            : k0 \in {RMul(q, q)} })
        : q \in {RDiv(R(n_air - n_object), R(n_air + n_object))},
          i_dot_normal \in {
              IF dot(self.direction, normal) < 0
              THEN R(dot(Vector_normalize(Vector_mul(self.direction, -1)), normal))
              ELSE Eval({
                       IF is_some(inside) THEN R(dot(unwrap(inside).direction, normal))
                       ELSE RNaN
                       : inside \in {snell(self, self.origin, Vector_mul(normal, -1),
                                           n_object, n_air)} }) } })

\* a refraction whose ray starts outside on both arms
refract_from_outside(self, intersection, n_air, n_object, fresnel, rand) ==
    LET threshold == IF fresnel
                     THEN compute_fresnel(self, intersection.normal, n_air, n_object)
                     ELSE ROne
    IN  IF RLt(rand, threshold)
        THEN IF dot(self.direction, intersection.normal) >= 0
             THEN snell(self, get_point_nudged(intersection),
                        Vector_mul(intersection.normal, -1), n_object, n_air)
             ELSE snell(self, get_point_nudged(intersection),
                        intersection.normal, n_air, n_object)
        ELSE None

\* ray.rs:88-140; rand is the draw of gen_range(0.0 .. 1.0)
refract(self, intersection, n_air, n_object, fresnel, rand) ==
    LET threshold == IF fresnel
                     THEN compute_fresnel(self, intersection.normal, n_air, n_object)
                     ELSE ROne
    IN  IF RLt(rand, threshold)
        THEN IF dot(self.direction, intersection.normal) >= 0
             THEN snell(self, get_point_nudged(intersection),
                        Vector_mul(intersection.normal, -1), n_object, n_air)
             ELSE snell(self, get_point_nudged_neg(intersection),
                        intersection.normal, n_air, n_object)
        ELSE None

\* the unit vectors of the lattice
AxisDirs == { <<1, 0, 0>>, <<-1, 0, 0>>, <<0, 1, 0>>, <<0, -1, 0>>, <<0, 0, 1>>, <<0, 0, -1>> }

\* ray.rs:170-193: z_local = sqrt(rand2) >= 0, so the direction drawn lies in
\* the closed hemisphere around n; the lattice directions among them
new_rand_ray(center, n) ==
    { Ray_new(center, dir) : dir \in { u \in AxisDirs : dot(u, n) >= 0 } }

\* ray.rs:225-251: z_local = sqrt(1 - phong_term) >= 0, same hemisphere around dir
new_rand_ray_phong(center, phong_exponent, dir) ==
    { Ray_new(center, dir2) : dir2 \in { u \in AxisDirs : dot(u, dir) >= 0 } }

\* ray.rs:196-222 for the draw rand2 = 0 (z_local = 1, x_local = y_local = 0):
\* dir2 = dir, the point of the spherical light facing dir
new_rand_ray_angle_uniform(center, surface, dir) ==
    LET rayon == RToInt(RSqrt(RDiv(surface, RMul(R(4), PI))))
        dir2 == Vector_normalize(dir)
    IN  { Ray_new(Vector_add(center, Vector_mul(dir2, rayon)), dir2) }

----------------------------------------------------------------------------
(* light.rs, intersection.rs, sphere.rs: what the radiance terms read *)

\* light.rs:20-39; intensity is a vector of rationals
get_intensity_local(self_, point_, normal, color, time) ==
    Eval({
        Eval({
            Eval({
                LET comp(i) == RMul(RMul(RDiv(self.intensity[i], R(d)), R(apparent)), R(color[i]))
                IN  <<comp(1), comp(2), comp(3)>>
                : apparent \in {fmax(dot(Vector_normalize(Vector_sub(fake_ray.origin, point)),
                                         normal), 0)},
                  d \in {norm_sq(Vector_sub(point, fake_ray.origin))} })
            : fake_ray \in {apply_animations(Ray_new(self.center, point),
                                             get_animations(self), time)} })
        : self \in {self_}, point \in {point_} })

\* intersection.rs:22-25
get_intensity(self, light, time) ==
    get_intensity_local(light, self.point, self.normal, self.material.color, time)

\* sphere.rs:75-77
get_surface_area(self) == RMul(RMul(RMul(R(4), PI), R(self.radius)), R(self.radius))

----------------------------------------------------------------------------
(* scene.rs: the terms of the radiance that do not recurse *)

\* scene.rs:414-427; the lights the loop has accumulated after light i
RECURSIVE point_light_loop(_, _, _, _, _)
point_light_loop(objs, lts, intersection, time, i) ==
    IF i = 0 THEN RV_zero
    ELSE Eval({
             IF compute_shadows(objs, get_point_nudged(intersection), lts[i], time)
             THEN RV_add(before, get_intensity(intersection, lts[i], time))
             ELSE before
             : before \in { point_light_loop(objs, lts, intersection, time, i - 1) } })

\* a point-light term that stops after the first light
compute_point_light_first(objs, lts, intersection, time) ==
    point_light_loop(objs, lts, intersection, time, IF Len(lts) > 1 THEN 1 ELSE Len(lts))

compute_point_light(objs, lts, intersection, time) ==
    point_light_loop(objs, lts, intersection, time, Len(lts))

\* an emissive term that does not look at the flag
compute_emissive_always(intersection, show) ==
    IF intersection.material.emissive
    THEN RV_mul(RV_mul_color(RV_new_eq(ROne), RV(intersection.material.color)),
                R(intersection.material.emissivity))
    ELSE RV_zero

\* scene.rs:290-302
compute_emissive(intersection, show) ==
    IF intersection.material.emissive /\ show
    THEN RV_mul(RV_mul_color(RV_new_eq(ROne), RV(intersection.material.color)),
                R(intersection.material.emissivity))
    ELSE RV_zero

\* scene.rs:325-333: probas[i] and their sum
proba_of(light_object) ==
    RDiv(R(get_material(light_object).emissivity), get_surface_area(light_object))

RECURSIVE probas_sum(_, _)
probas_sum(lobjs, i) ==
    IF i = 0 THEN RZero ELSE RAdd(probas_sum(lobjs, i - 1), proba_of(lobjs[i]))

\* scene.rs:335-337: the first index whose test `rand * sum <= probas[i]` passes, 0 if none
selects(lobjs, rand, i) == RLe(RMul(rand, probas_sum(lobjs, Len(lobjs))), proba_of(lobjs[i]))

selected_light(lobjs, rand) ==
    IF \E i \in 1..Len(lobjs) : selects(lobjs, rand, i)
    THEN CHOOSE i \in 1..Len(lobjs) :
             selects(lobjs, rand, i) /\ \A j \in 1..(i - 1) : ~selects(lobjs, rand, j)
    ELSE 0

\* scene.rs:339-404 for the light object chosen and the point new_ray drawn on it
direct_from(objs, light_object_i_, new_ray_, ray_, intersection_, time) ==
    Eval({
        Eval({
            Eval({
                IF compute_shadows(objs, nudged, new_light, time)
                THEN Eval({
                         Eval({
                             RV_div(
                                 RV_mul_color(
                                     RV_mul(RV_mul(RV_mul(RV_mul_color(RV_mul(RV_new_eq(ROne),
                                                                              R(mat_l.emissivity)),
                                                                       RV(mat_l.color)),
                                                          R(cos_inter)),
                                                   area),
                                            R(cos_light)),
                                     IF intersection.material.phong
                                     THEN Color_add(RV(intersection.material.color),
                                                    Color_mul(RV(intersection.material.specular_color),
                                                              RSub(phong_term, ROne)))
                                     ELSE RV(intersection.material.color)),
                                 RMul(RMul(R(fmax(dot(dir_center_light, rand_result_dir), 0) * d),
                                           R(4)),
                                      PI))
                             : phong_term \in {
                                   RDiv(RMul(RPow(R(dot(reflected_ray.direction,
                                                        rand_result_dir_to_intersection)), e),
                                             R(e + 2)),
                                        RMul(R(2), PI)) },
                               cos_inter \in {
                                   fmax(dot(intersection.normal,
                                            Vector_mul(rand_result_dir_to_intersection, -1)), 0) },
                               cos_light \in {
                                   fmax(dot(rand_result_dir, rand_result_dir_to_intersection), 0) } })
                         : dir_center_light \in {
                               Vector_normalize(Vector_sub(intersection.point, light_center)) },
                           rand_result_dir \in { Vector_normalize(new_ray.direction) },
                           rand_result_dir_to_intersection \in { Vector_normalize(to_inter) },
                           d \in { norm_sq(to_inter) },
                           reflected_ray \in { reflect(ray, intersection) } })
                ELSE RV_zero
                : to_inter \in { Vector_sub(intersection.point, rand_result_point) },
                  new_light \in {
                      [center |-> rand_result_point,
                       intensity |-> RV_mul_color(RV_div(RV_mul(RV_new_eq(ROne),
                                                                R(mat_l.emissivity)), area),
                                                  RV(mat_l.color)),
                       animations |-> get_animations(light_object_i)] } })
            : mat_l \in { get_material(light_object_i) },
              light_center \in { get_center(light_object_i) },
              rand_result_point \in { new_ray.origin },
              nudged \in { get_point_nudged(intersection) },
              area \in { get_surface_area(light_object_i) },
              e \in { intersection.material.phong_exponent } })
        : light_object_i \in {light_object_i_}, new_ray \in {new_ray_},
          ray \in {ray_}, intersection \in {intersection_} })

\* scene.rs:305-411; rand is the draw of line 316, the result is the set of
\* values the draws of new_rand_ray_angle_uniform can give
compute_direct(objs, lobjs, ray, intersection, time, rand) ==
    Eval({
        IF i = 0 THEN { RV_zero }
        ELSE { direct_from(objs, lobjs[i], new_ray, ray, intersection, time) :
                 new_ray \in new_rand_ray_angle_uniform(
                     get_center(lobjs[i]), get_surface_area(lobjs[i]),
                     Vector_normalize(Vector_sub(intersection.point, get_center(lobjs[i])))) }
        : i \in { selected_light(lobjs, rand) } })

----------------------------------------------------------------------------
(* The inputs of the animation transform *)

Times == 0..MaxTime

\* <<start_time, end_time>>: a running interval, an instantaneous one, a
\* degenerate one (start_time > end_time)
AnimIntervals == {<<0, 2>>, <<1, 1>>, <<1, 0>>}

\* the animations a caller builds with the constructors of animate.rs
AnimCatalog ==
    UNION {
        { Animation_translation(iv[1], iv[2], <<2, 0, 0>>),
          Animation_scale(iv[1], iv[2], 2),
          Animation_rotation_x(iv[1], iv[2], 180, <<0, 1, 0>>),
          Animation_rotation_y(iv[1], iv[2], 180, <<0, 0, 1>>),
          Animation_rotation_z(iv[1], iv[2], 180, <<1, 0, 0>>),
          Animation_new(iv[1], iv[2], <<2, 0, 0>>, 2,
                        0, new_eq(0), 0, new_eq(0), 180, new_eq(0)) }
        : iv \in AnimIntervals }

RayInputs == { Ray_new(<<1, 2, 3>>, <<1, 0, 0>>),
               Ray_new(<<0, 0, 0>>, <<0, 1, 0>>) }

NoRay == Ray_new(new_eq(0), new_eq(0))

----------------------------------------------------------------------------
(* State machine of the animation transform: a component collects          *)
(* animations (Animatable::add_animation), then a ray is transformed.      *)

AnimIdle ==
    /\ an_ray = NoRay /\ an_animations = <<>> /\ an_time = 0 /\ an_pc = "idle"
    /\ an_applied = NoRay /\ an_reversed = NoRay /\ an_round = NoRay

SceneEmpty ==
    /\ objects = <<>> /\ lights = <<>> /\ light_objects = <<>>
    /\ show_emissive_surfaces = FALSE /\ last_show_arg = None

QueryIdle == query = [op |-> "none"]

NoReturn == [fn |-> "none"]

PixelIdle ==
    /\ px_config = [nb_rays |-> 0] /\ px_samples = <<>> /\ px_partials = <<>>
    /\ px_intensity = <<>>

TraceIdle ==
    /\ stack = <<>> /\ ret = NoReturn /\ status = "idle"
    /\ top = [entry |-> "none"] /\ nqueries = 0

AnimInit ==
    /\ an_ray \in RayInputs
    /\ an_time \in Times
    /\ an_animations = <<>>
    /\ an_pc = "start"
    /\ an_applied = NoRay /\ an_reversed = NoRay /\ an_round = NoRay
    /\ SceneEmpty /\ QueryIdle /\ TraceIdle /\ PixelIdle

\* Animatable::add_animation (sphere.rs:27, light.rs:43, camera.rs:33)
add_animation ==
    /\ an_pc = "start"
    /\ Len(an_animations) < MaxAnims
    /\ \E a \in AnimCatalog : an_animations' = Append(an_animations, a)
    /\ UNCHANGED <<an_ray, an_time, an_pc, an_applied, an_reversed, an_round>>
    /\ UNCHANGED <<sceneVars, query, traceVars, pixelVars>>

ApplyAnimations ==
    /\ an_pc = "start"
    /\ an_applied' = apply_animations(an_ray, an_animations, an_time)
    /\ an_pc' = "applied"
    /\ UNCHANGED <<an_ray, an_animations, an_time, an_reversed, an_round>>
    /\ UNCHANGED <<sceneVars, query, traceVars, pixelVars>>

ReverseAnimations ==
    /\ an_pc = "applied"
    /\ an_reversed' = reverse_animations(an_ray, an_animations, an_time)
    /\ an_pc' = "reversed"
    /\ UNCHANGED <<an_ray, an_animations, an_time, an_applied, an_round>>
    /\ UNCHANGED <<sceneVars, query, traceVars, pixelVars>>

\* reverse_animations on the ray apply_animations returned, as
\* compute_intersection chains them (scene.rs:57-59, in the other order)
RoundTrip ==
    /\ an_pc = "reversed"
    /\ an_round' = reverse_animations(an_applied, an_animations, an_time)
    /\ an_pc' = "round"
    /\ UNCHANGED <<an_ray, an_animations, an_time, an_applied, an_reversed>>
    /\ UNCHANGED <<sceneVars, query, traceVars, pixelVars>>

AnimNext == add_animation \/ ApplyAnimations \/ ReverseAnimations \/ RoundTrip

SpecAnim == AnimInit /\ [][AnimNext]_vars

----------------------------------------------------------------------------
(* Claims on the animation transform *)

AllDegenerate(animations) ==
    \A i \in 1..Len(animations) : animations[i].start_time > animations[i].end_time

\* C9: an animation list all of whose entries have start_time > end_time
\* never alters a ray: apply_animations and reverse_animations return the
\* ray with origin and direction unchanged, at every time.
C9_DegenerateNeverAlters ==
    AllDegenerate(an_animations) =>
        /\ (an_pc \in {"applied", "reversed", "round"} => an_applied = an_ray)
        /\ (an_pc \in {"reversed", "round"} => an_reversed = an_ray)

\* a list of degenerate animations that have started (start_time < time) and
\* that move the ray when they are not skipped
C9_Witness ==
    /\ an_pc = "reversed"
    /\ Len(an_animations) >= 1
    /\ AllDegenerate(an_animations)
    /\ \A i \in 1..Len(an_animations) :
          /\ an_animations[i].start_time < an_time
          /\ animate_once(an_ray, an_animations[i], an_time) # an_ray

\* C10: reverse_animations(apply_animations(ray, anims, time), anims, time)
\* has the origin and the direction of the original ray.
C10_RoundTrip ==
    an_pc = "round" => an_round = an_ray

\* the single-animation transforms of the active animations 1..i of the list,
\* applied one after the other, each to the result of the one before
RECURSIVE InSequence(_, _, _, _)
InSequence(ray, animations, time, i) ==
    IF i = 0 THEN ray
    ELSE Eval({
             IF skipped(animations[i], time) THEN before
             ELSE animate_once(before, animations[i], time)
             : before \in { InSequence(ray, animations, time, i - 1) } })

\* C11: apply_animations(ray, [a1, ..., an], time) is the transform of a1,
\* then that of a2 applied to the result, and so on in list order: every
\* active animation of the list contributes to the final ray.
C11_ComposeInSequence ==
    an_pc \in {"applied", "reversed", "round"} =>
        an_applied = InSequence(an_ray, an_animations, an_time, Len(an_animations))

\* C12: an animation is skipped exactly when time < start_time or
\* start_time > end_time; one with start_time <= end_time <= time, the case
\* start_time = end_time = time included, is applied with progress 1 (a list
\* of one animation shows the transform of that animation alone).
C12_SkippedExactlyBeforeStart ==
    (an_pc \in {"applied", "reversed", "round"} /\ Len(an_animations) = 1) =>
        an_applied =
            IF an_time < an_animations[1].start_time
               \/ an_animations[1].start_time > an_animations[1].end_time
            THEN an_ray
            ELSE animate_once(an_ray, an_animations[1], an_time)

\* the ray r turned by theta about the axis (1 for x, 2 for y, 3 for z): the
\* origin about centre, the direction about the origin
TurnedAbout(axis, r, theta, centre) ==
    IF axis = 1
    THEN [origin |-> Vector_add(Vector_rotate_x(Vector_sub(r.origin, centre), theta), centre),
          direction |-> Vector_rotate_x(r.direction, theta)]
    ELSE IF axis = 2
    THEN [origin |-> Vector_add(Vector_rotate_y(Vector_sub(r.origin, centre), theta), centre),
          direction |-> Vector_rotate_y(r.direction, theta)]
    ELSE [origin |-> Vector_add(Vector_rotate_z(Vector_sub(r.origin, centre), theta), centre),
          direction |-> Vector_rotate_z(r.direction, theta)]

\* translate, then turn about x, y, z, each scaled by the fraction num / den
InFixedOrder(r, a, num, den) ==
    TurnedAbout(3,
        TurnedAbout(2,
            TurnedAbout(1,
                [origin |-> << r.origin[1] + ExactDiv(a.translation[1] * num, den),
                               r.origin[2] + ExactDiv(a.translation[2] * num, den),
                               r.origin[3] + ExactDiv(a.translation[3] * num, den) >>,
                 direction |-> r.direction],
                ExactDiv(a.rotation_x * num, den), a.rotation_center_x),
            ExactDiv(a.rotation_y * num, den), a.rotation_center_y),
        ExactDiv(a.rotation_z * num, den), a.rotation_center_z)

\* C26: for a single animation with start_time < time < end_time,
\* apply_animations uses progress = (time - start_time) / (end_time -
\* start_time) and translates the origin by translation * progress, then
\* rotates about x, y and z by the angle * progress around the centre of each
\* rotation, the direction being turned about the origin; for every
\* time >= end_time the result equals the result at end_time.
C26_SingleAnimation ==
    (an_pc \in {"applied", "reversed", "round"} /\ Len(an_animations) = 1) =>
        /\ (an_animations[1].start_time < an_time /\ an_time < an_animations[1].end_time) =>
               an_applied = InFixedOrder(an_ray, an_animations[1],
                                         an_time - an_animations[1].start_time,
                                         an_animations[1].end_time - an_animations[1].start_time)
        /\ an_time >= an_animations[1].end_time =>
               an_applied = apply_animations(an_ray, an_animations, an_animations[1].end_time)

\* the scale values a caller may give an animation
Scales == {0, 3}

\* the lists that differ from animations only in their scale values
Rescalings(animations) ==
    { [i \in 1..Len(animations) |-> [animations[i] EXCEPT !.scale = scales[i]]] :
          scales \in [1..Len(animations) -> Scales] }

\* C25: the scale field of an Animation is never applied by the ray
\* transform: two animation lists that differ only in their scale values
\* give identical results from apply_animations and from reverse_animations,
\* for every ray and time.
C25_ScaleNeverApplied ==
    /\ an_pc = "applied" =>
           \A rescaled \in Rescalings(an_animations) :
               apply_animations(an_ray, rescaled, an_time) = an_applied
    /\ an_pc = "reversed" =>
           \A rescaled \in Rescalings(an_animations) :
               reverse_animations(an_ray, rescaled, an_time) = an_reversed

\* C25 witness: an animation with a translation and a scale other than 1 is
\* the one in effect, and both transforms have moved the ray
C25_Witness ==
    /\ an_pc = "reversed"
    /\ an_applied # an_ray /\ an_reversed # an_ray
    /\ \E i \in 1..Len(an_animations) :
          /\ an_animations[i].scale # 1
          /\ ~skipped(an_animations[i], an_time)
          /\ an_animations[i].translation # new_eq(0)
          /\ an_applied = animate_once(an_ray, an_animations[i], an_time)

----------------------------------------------------------------------------
(* State machine of the Scene: it is built with the add_ calls (&mut self), *)
(* then queried through a shared borrow (lib.rs:62, main.rs:100-102); a    *)
(* behaviour builds one scene and records one query on it.                 *)

\* spheres on the x axis: two at rest, one translated by an animation, one
\* translated and rotated by a single animation
SceneObjects ==
    { Sphere_new(<<11, 0, 0>>, 2, create_diffuse(Color_red)),
      Sphere_new(<<20, 0, 0>>, 3, create_mirror(Color_white)),
      with_animation(Sphere_new(<<14, 0, 0>>, 2, create_diffuse(Color_white)),
                     Animation_translation(0, 2, <<2, 0, 0>>)),
      with_animation(Sphere_new(<<0, -10, 0>>, 2, create_diffuse(Color_white)),
                     Animation_new(0, 2, <<2, 0, 0>>, 1, 0, new_eq(0), 0, new_eq(0), 180, new_eq(0))) }

SceneLights ==
    { Light_new(<<30, 0, 0>>, RV(<<100, 100, 100>>)),
      with_animation(Light_new(<<4, 0, 0>>, RV(<<100, 0, 0>>)),
                     Animation_translation(0, 2, <<8, 0, 0>>)) }

SceneLightObjects ==
    { Sphere_new(<<5, 0, 0>>, 2, create_emissive(Color_white, 8)) }

QueryRays == { Ray_new(<<0, 0, 0>>, <<1, 0, 0>>),
               Ray_new(<<30, 0, 0>>, <<-1, 0, 0>>),
               Ray_new(<<0, 0, 0>>, <<0, 1, 0>>) }

QueryPoints == { <<0, 0, 0>>, <<16, 0, 0>> }

\* the hits compute_emissive is asked about: on a lamp, on a lamp switched
\* down to emissivity 0, on a diffuse wall
QueryIntersections ==
    { Intersection_new(<<3, 0, 0>>, <<-1, 0, 0>>, create_emissive(Color_white, 8)),
      Intersection_new(<<3, 0, 0>>, <<-1, 0, 0>>, create_emissive(Color_red, 3)),
      Intersection_new(<<3, 0, 0>>, <<-1, 0, 0>>, create_emissive(Color_red, 0)),
      Intersection_new(<<9, 0, 0>>, <<-1, 0, 0>>, create_diffuse(Color_red)) }

\* the hits compute_point_light is asked about: on the red sphere facing the
\* origin, on the far side of the mirror sphere facing the static light
PointLightHits ==
    { Intersection_new(<<9, 0, 0>>, <<-1, 0, 0>>, create_diffuse(Color_red)),
      Intersection_new(<<23, 0, 0>>, <<1, 0, 0>>, create_mirror(Color_white)) }

\* Scene::new
SceneInit ==
    /\ objects = <<>> /\ lights = <<>> /\ light_objects = <<>>
    /\ show_emissive_surfaces = FALSE /\ last_show_arg = None
    /\ QueryIdle /\ AnimIdle /\ TraceIdle /\ PixelIdle

add_object ==
    /\ query.op = "none"
    /\ Len(objects) < MaxObjects
    /\ \E obj \in SceneObjects : objects' = Append(objects, obj)
    /\ UNCHANGED <<lights, light_objects, show_emissive_surfaces, last_show_arg, query, animVars, traceVars, pixelVars>>

add_light ==
    /\ query.op = "none"
    /\ Len(lights) < MaxLights
    /\ \E light \in SceneLights : lights' = Append(lights, light)
    /\ UNCHANGED <<objects, light_objects, show_emissive_surfaces, last_show_arg, query, animVars, traceVars, pixelVars>>

add_light_object ==
    /\ query.op = "none"
    /\ Len(light_objects) < MaxLightObjects
    /\ \E obj \in SceneLightObjects : light_objects' = Append(light_objects, obj)
    /\ UNCHANGED <<objects, lights, show_emissive_surfaces, last_show_arg, query, animVars, traceVars, pixelVars>>

set_show_emissive_surfaces ==
    /\ query.op = "none"
    /\ \E b \in BOOLEAN : show_emissive_surfaces' = b /\ last_show_arg' = Some(b)
    /\ UNCHANGED <<objects, lights, light_objects, query, animVars, traceVars, pixelVars>>

\* a call of Scene::compute_intersection; query keeps the arguments, the
\* objects scanned and what was returned
ComputeIntersection ==
    /\ query.op = "none"
    /\ \E ray \in QueryRays, time \in Times :
          LET full == compute_intersection_full(objects, ray, time)
          IN  query' = [op |-> "compute_intersection", objects |-> objects,
                        ray |-> ray, time |-> time,
                        result |-> full.inter, by |-> full.by]
    /\ UNCHANGED <<sceneVars, animVars, traceVars, pixelVars>>

\* a call of Scene::compute_shadows
ComputeShadows ==
    /\ query.op = "none"
    /\ \E point \in QueryPoints, light \in SceneLights, time \in Times :
          query' = [op |-> "compute_shadows", objects |-> objects,
                    point |-> point, light |-> light, time |-> time,
                    result |-> compute_shadows(objects, point, light, time)]
    /\ UNCHANGED <<sceneVars, animVars, traceVars, pixelVars>>

\* a call of Scene::compute_emissive as compute_intensity makes it
\* (scene.rs:120-121), with the flag of the scene
ComputeEmissive ==
    /\ query.op = "none"
    /\ \E intersection \in QueryIntersections, time \in Times :
          query' = [op |-> "compute_emissive", intersection |-> intersection,
                    time |-> time,
                    result |-> compute_emissive(intersection, show_emissive_surfaces)]
    /\ UNCHANGED <<sceneVars, animVars, traceVars, pixelVars>>

\* a call of Scene::compute_point_light as compute_intensity makes it
\* (scene.rs:112-113)
ComputePointLight ==
    /\ query.op = "none"
    /\ \E intersection \in PointLightHits, time \in Times :
          query' = [op |-> "compute_point_light", objects |-> objects, lights |-> lights,
                    intersection |-> intersection, time |-> time,
                    result |-> compute_point_light(objects, lights, intersection, time)]
    /\ UNCHANGED <<sceneVars, animVars, traceVars, pixelVars>>

SceneNext ==
    \/ add_object \/ add_light \/ add_light_object \/ set_show_emissive_surfaces
    \/ ComputeIntersection \/ ComputeShadows \/ ComputeEmissive \/ ComputePointLight

SpecScene == SceneInit /\ [][SceneNext]_vars

----------------------------------------------------------------------------
(* Claims on the Scene queries *)

\* the hit of object i for the queried ray, as the object reports it
QueryHit(i) ==
    object_test(query.objects[i], query.ray, query.time).col

QueryDistSq(inter) == norm_sq(Vector_sub(inter.point, query.ray.origin))

\* C6: compute_intersection returns None exactly when no object is hit, and
\* otherwise a hit of some object whose squared distance from the origin of
\* the queried ray is at most that of the hit of every object.
C6_NearestHit ==
    query.op = "compute_intersection" =>
        LET n == Len(query.objects) IN
        /\ (query.result = None) <=> (\A i \in 1..n : QueryHit(i) = None)
        /\ query.result # None =>
              /\ \E i \in 1..n : QueryHit(i) = query.result
              /\ \A j \in 1..n :
                    QueryHit(j) # None =>
                        QueryDistSq(unwrap(query.result)) <= QueryDistSq(unwrap(QueryHit(j)))

HasActiveAnimation(component, time) ==
    \E i \in 1..Len(component.animations) : ~skipped(component.animations[i], time)

\* an Intersection taken from the object's rest frame to world space
ToWorld(inter, animations, time) ==
    LET r == apply_animations(Ray_new(inter.point, inter.normal), animations, time)
    IN  [point |-> r.origin, normal |-> r.direction, material |-> inter.material]

\* C7: when the object that gave the returned hit has an active animation,
\* the returned point and normal are the rest-frame hit transformed back by
\* the object's animations (world space).
C7_HitInWorldSpace ==
    (query.op = "compute_intersection" /\ query.result # None
        /\ HasActiveAnimation(query.objects[query.by], query.time)) =>
        unwrap(query.result) =
            ToWorld(unwrap(QueryHit(query.by)),
                    get_animations(query.objects[query.by]), query.time)

\* C8: compute_shadows returns true exactly when no object has a hit, along
\* the ray from the point to the light's animated position, at most as far
\* from the point as that animated position.
C8_ShadowsToAnimatedLight ==
    query.op = "compute_shadows" =>
        LET ray == shadow_ray(query.point, query.light, query.time)
            lightDistSq == norm_sq(Vector_sub(query.point,
                                              light_position(query.light, query.time)))
        IN  query.result <=>
                \A i \in 1..Len(query.objects) :
                    LET test == object_test(query.objects[i], ray, query.time)
                    IN  ~(is_some(test.col) /\ hit_norm_sq(test) <= lightDistSq)

\* C14: the emissive term is material colour times emissivity when the hit
\* material is emissive and the flag of the scene is set, and zero otherwise;
\* the flag is false on a scene no set_show_emissive_surfaces call was made
\* on, and otherwise holds the argument of the last such call.
C14_EmissiveTerm ==
    /\ show_emissive_surfaces =
           IF is_some(last_show_arg) THEN unwrap(last_show_arg) ELSE FALSE
    /\ query.op = "compute_emissive" =>
           query.result =
               IF query.intersection.material.emissive /\ show_emissive_surfaces
               THEN << R(query.intersection.material.color[1]
                         * query.intersection.material.emissivity),
                       R(query.intersection.material.color[2]
                         * query.intersection.material.emissivity),
                       R(query.intersection.material.color[3]
                         * query.intersection.material.emissivity) >>
               ELSE << RZero, RZero, RZero >>

\* C14 witness: set_show_emissive_surfaces(true) was the last call, then the
\* term of a hit on a lamp was computed and is not zero.
C14_Witness ==
    /\ last_show_arg = Some(TRUE)
    /\ query.op = "compute_emissive"
    /\ query.intersection.material.emissive
    /\ query.result # << RZero, RZero, RZero >>

\* obj, if it were scanned, would be hit by the queried ray
WouldBeHit(obj) == is_some(object_test(obj, query.ray, query.time).col)

\* obj, if it were scanned, would hide the queried light from the queried point
WouldOcclude(obj) ==
    \E test \in { object_test(obj, shadow_ray(query.point, query.light, query.time),
                               query.time) } :
        /\ is_some(test.col)
        /\ hit_norm_sq(test) <= norm_sq(Vector_sub(query.point, query.light.center))

\* one more element at the end, the rest as it was
Appended(before, after) ==
    /\ Len(after) = Len(before) + 1
    /\ SubSeq(after, 1, Len(before)) = before

\* what the queries return comes from `objects` alone
OnlyObjectsScanned ==
    /\ query.op = "compute_intersection" =>
           /\ query.result # None =>
                  \E i \in 1..Len(objects) :
                      object_test(objects[i], query.ray, query.time).col = query.result
           /\ query.result = None => \A i \in 1..Len(objects) : ~WouldBeHit(objects[i])
    /\ query.op = "compute_shadows" =>
           (query.result <=> \A i \in 1..Len(objects) : ~WouldOcclude(objects[i]))

\* C29: compute_intersection and compute_shadows scan only `objects`: an
\* object registered only through add_light_object is never returned as a hit
\* and never occludes a light; each add_ call appends to its own collection
\* and leaves the other two collections and show_emissive_surfaces unchanged.
C29_OnlyObjectsScanned ==
    /\ []OnlyObjectsScanned
    /\ [][/\ add_object =>
               (Appended(objects, objects')
                /\ UNCHANGED <<lights, light_objects, show_emissive_surfaces>>)
          /\ add_light =>
               (Appended(lights, lights')
                /\ UNCHANGED <<objects, light_objects, show_emissive_surfaces>>)
          /\ add_light_object =>
               (Appended(light_objects, light_objects')
                /\ UNCHANGED <<objects, lights, show_emissive_surfaces>>)]_vars

\* C29 witness: a sphere registered only as a light object stands between
\* the queried point and the light, and the light is reported visible
C29_Witness ==
    /\ query.op = "compute_shadows" /\ query.result
    /\ objects # <<>>
    /\ \E k \in 1..Len(light_objects) :
          /\ WouldOcclude(light_objects[k])
          /\ \A i \in 1..Len(objects) : objects[i] # light_objects[k]

\* the position of light i at the time of the query (light.rs:28-30)
QueryLightAt(i) ==
    apply_animations(Ray_new(query.lights[i].center, query.intersection.point),
                     query.lights[i].animations, query.time).origin

\* compute_shadows reports light i visible from the outward-nudged hit point
QueryLightVisible(i) ==
    compute_shadows(query.objects, get_point_nudged(query.intersection),
                    query.lights[i], query.time)

\* intensity / squared distance * max(0, cos) * colour of light i in channel c
QueryLightShare(i, c) ==
    Eval({
        Eval({
            RMul(RMul(RDiv(query.lights[i].intensity[c], R(norm_sq(to_light))),
                      R(IF cos > 0 THEN cos ELSE 0)),
                 R(query.intersection.material.color[c]))
            : cos \in { dot(Vector_normalize(to_light), query.intersection.normal) } })
        : to_light \in { Vector_sub(QueryLightAt(i), query.intersection.point) } })

\* the shares in channel c of the visible lights among the first i
RECURSIVE VisibleShares(_, _)
VisibleShares(i, c) ==
    IF i = 0 THEN RZero
    ELSE IF QueryLightVisible(i)
         THEN RAdd(VisibleShares(i - 1, c), QueryLightShare(i, c))
         ELSE VisibleShares(i - 1, c)

\* C24: the point-light term is the sum, over the point lights that
\* compute_shadows reports visible from the outward-nudged hit point, of
\* intensity / squared distance * max(0, cos) * material colour per channel;
\* a shadowed light adds nothing, no point light gives zero, and a channel in
\* which the material colour or the intensity of the lights is zero is
\* exactly zero.
C24_PointLightTerm ==
    query.op = "compute_point_light" =>
        /\ \A c \in 1..3 : query.result[c] = VisibleShares(Len(query.lights), c)
        /\ query.lights = <<>> => query.result = RV_zero
        /\ \A c \in 1..3 :
               (\/ query.intersection.material.color[c] = 0
                \/ \A i \in 1..Len(query.lights) : query.lights[i].intensity[c] = RZero)
                   => query.result[c] = RZero

\* C24 witness: two point lights, the first shadowed and the second visible
\* with a positive share in the red channel and none in the green one
C24_Witness ==
    /\ query.op = "compute_point_light" /\ Len(query.lights) = 2
    /\ ~QueryLightVisible(1) /\ QueryLightVisible(2)
    /\ RLt(RZero, query.result[1]) /\ query.result[2] = RZero

----------------------------------------------------------------------------
(* scene.rs:99-287, the recursive radiance estimator as a call stack.  A    *)
(* frame is one activation of compute_intensity, compute_mirror,           *)
(* compute_transparent or compute_indirect; pc is where it waits.          *)

\* usize::MAX, by the largest integer of TLC (its integers have 32 bits)
UsizeMax == 2147483647

\* the deepest stack a top-level call with nb_iter_max <= MaxIter can build:
\* compute_intensity, compute_transparent and compute_mirror for each level
MaxStack == 3 * MaxIter + 1

\* a match without the arm `0 =>`
is_terminal_never(nb_iter_max) == FALSE

\* scene.rs:106-107, the arm `0 =>` of the match
is_terminal(nb_iter_max) == nb_iter_max = 0

\* a recursive call that passes nb_iter_max on unchanged
sub_one_forgotten(nb_iter_max) == { [panic |-> FALSE, value |-> nb_iter_max] }

\* a recursive call that takes two off the counter
sub_one_twice(nb_iter_max) ==
    IF nb_iter_max >= 2
    THEN { [panic |-> FALSE, value |-> nb_iter_max - 2] }
    ELSE { [panic |-> TRUE, value |-> 0], [panic |-> FALSE, value |-> UsizeMax] }

\* `nb_iter_max - 1` on usize (scene.rs:154, 193, 249): below zero the
\* subtraction panics where overflow checks are compiled in and wraps where
\* they are not
sub_one(nb_iter_max) ==
    IF nb_iter_max >= 1
    THEN { [panic |-> FALSE, value |-> nb_iter_max - 1] }
    ELSE { [panic |-> TRUE, value |-> 0], [panic |-> FALSE, value |-> UsizeMax] }

\* an accumulation without the clamp, and one that assigns instead of adding
accumulate_unclamped(cur_intensity, term) == RV_add(cur_intensity, term)
accumulate_overwriting(cur_intensity, term) == RV_max(term, RV_zero)

\* scene.rs:111-113, `cur_intensity += term.max(Vector::new_eq(0.))`
accumulate(cur_intensity, term) == RV_add(cur_intensity, RV_max(term, RV_zero))

Frame(fn, ray, intersection, nb_iter_max) ==
    [fn |-> fn, ray |-> ray, intersection |-> intersection, nb_iter_max |-> nb_iter_max,
     pc |-> "enter", cur_intensity |-> RV_zero, terms |-> <<>>,
     rand |-> RZero, new_ray |-> NoRay, branch |-> FALSE]

Top == stack[Len(stack)]

Running(fn, pc) ==
    /\ status = "running" /\ stack # <<>>
    /\ Top.fn = fn /\ Top.pc = pc

\* the activation on top returns value to its caller
DoReturn(terms, value, queries) ==
    /\ stack' = SubSeq(stack, 1, Len(stack) - 1)
    /\ ret' = [fn |-> Top.fn, intersection |-> Top.intersection,
               nb_iter_max |-> Top.nb_iter_max, terms |-> terms, value |-> value]
    /\ status' = IF Len(stack) = 1 THEN "done" ELSE status
    /\ nqueries' = nqueries + queries

\* the activation on top moves on as frame and calls callee
DoCall(frame, callee, queries) ==
    /\ Len(stack) < MaxStack
    /\ stack' = Append([stack EXCEPT ![Len(stack)] = frame], callee)
    /\ ret' = NoReturn
    /\ status' = status
    /\ nqueries' = nqueries + queries

DoPanic(queries) ==
    /\ status' = "panic"
    /\ nqueries' = nqueries + queries
    /\ UNCHANGED <<stack, ret>>

\* a recursive call compute_intensity(ray, intersection, nb_iter_max - 1, time)
DoRecurse(frame, ray, intersection, queries) ==
    \E k \in sub_one(Top.nb_iter_max) :
        IF k.panic THEN DoPanic(queries)
        ELSE DoCall(frame, Frame("compute_intensity", ray, intersection, k.value), queries)


\* the draws of rng.gen_range(0.0 .. 1.0)
Rands == { <<0, 1>>, <<1, 2>> }

\* scene.rs:106-113: the terminal arm, or the point-light term and the call of compute_mirror
IntensityEnter ==
    /\ Running("compute_intensity", "enter")
    /\ IF is_terminal(Top.nb_iter_max)
       THEN DoReturn(<<>>, RV_zero, 0)
       ELSE \E term \in { compute_point_light(objects, lights, Top.intersection, top.time) } :
                DoCall([Top EXCEPT !.pc = "mirror", !.terms = <<term>>,
                                   !.cur_intensity = accumulate(@, term)],
                       Frame("compute_mirror", Top.ray, Top.intersection, Top.nb_iter_max),
                       Len(lights))
    /\ UNCHANGED <<animVars, sceneVars, query, pixelVars, top>>

\* scene.rs:114-119: the mirror term is added, compute_transparent is called
IntensityAfterMirror ==
    /\ Running("compute_intensity", "mirror")
    /\ DoCall([Top EXCEPT !.pc = "transparent", !.terms = Append(@, ret.value),
                          !.cur_intensity = accumulate(@, ret.value)],
              Frame("compute_transparent", Top.ray, Top.intersection, Top.nb_iter_max), 0)
    /\ UNCHANGED <<animVars, sceneVars, query, pixelVars, top>>

\* scene.rs:117-125: the transparent and emissive terms are added, compute_indirect is called
IntensityAfterTransparent ==
    /\ Running("compute_intensity", "transparent")
    /\ \E term \in { compute_emissive(Top.intersection, show_emissive_surfaces) } :
           DoCall([Top EXCEPT !.pc = "indirect", !.terms = Append(Append(@, ret.value), term),
                              !.cur_intensity = accumulate(accumulate(@, ret.value), term)],
                  Frame("compute_indirect", Top.ray, Top.intersection, Top.nb_iter_max), 0)
    /\ UNCHANGED <<animVars, sceneVars, query, pixelVars, top>>

\* scene.rs:123-130: the indirect and direct terms are added, the sum is returned
IntensityAfterIndirect ==
    /\ Running("compute_intensity", "indirect")
    /\ \E rand \in Rands :
        \E term \in compute_direct(objects, light_objects, Top.ray, Top.intersection, top.time, rand) :
            DoReturn(Append(Append(Top.terms, ret.value), term),
                     accumulate(accumulate(Top.cur_intensity, ret.value), term),
                     IF selected_light(light_objects, rand) = 0 THEN 0 ELSE 1)
    /\ UNCHANGED <<animVars, sceneVars, query, pixelVars, top>>

\* scene.rs:143-160 up to the recursive call
MirrorEnter ==
    /\ Running("compute_mirror", "enter")
    /\ IF ~Top.intersection.material.mirror
       THEN DoReturn(<<>>, RV_zero, 0)
       ELSE \E reflected_ray \in { reflect(Top.ray, Top.intersection) } :
            \E reflected_inter \in { compute_intersection(objects, reflected_ray, top.time) } :
                IF is_some(reflected_inter)
                THEN DoRecurse([Top EXCEPT !.pc = "recursed"], reflected_ray,
                               get_inter_nudged(unwrap(reflected_inter)), 1)
                ELSE DoReturn(<<>>, RV_zero, 1)
    /\ UNCHANGED <<animVars, sceneVars, query, pixelVars, top>>

\* scene.rs:151-156: the radiance of the reflected ray times specular_color
MirrorAfterIntensity ==
    /\ Running("compute_mirror", "recursed")
    /\ DoReturn(<<>>, RV_mul_color(ret.value, RV(Top.intersection.material.specular_color)), 0)
    /\ UNCHANGED <<animVars, sceneVars, query, pixelVars, top>>

\* scene.rs:172-199 up to the call of compute_mirror or compute_intensity
TransparentEnter ==
    /\ Running("compute_transparent", "enter")
    /\ IF ~Top.intersection.material.transparent
       THEN DoReturn(<<>>, RV_zero, 0)
       ELSE \E rand \in Rands, intersection \in { Top.intersection } :
            \E refracted_ray \in { refract(Top.ray, intersection, 1,
                                           intersection.material.n_object, FALSE, rand) } :
                IF refracted_ray = None
                THEN \E intersection_as_mirror \in {
                             [intersection EXCEPT
                                 !.material.mirror = TRUE,
                                 !.normal = IF dot(Top.ray.direction, intersection.normal) >= 0
                                            THEN Vector_mul(@, -1) ELSE @] } :
                         DoCall([Top EXCEPT !.pc = "mirrored"],
                                Frame("compute_mirror", Top.ray, intersection_as_mirror,
                                      Top.nb_iter_max), 0)
                ELSE \E refracted_intersection \in {
                             compute_intersection(objects, unwrap(refracted_ray), top.time) } :
                         IF is_some(refracted_intersection)
                         THEN DoRecurse([Top EXCEPT !.pc = "recursed"], unwrap(refracted_ray),
                                        unwrap(refracted_intersection), 1)
                         ELSE DoReturn(<<>>, RV_zero, 1)
    /\ UNCHANGED <<animVars, sceneVars, query, pixelVars, top>>

\* scene.rs:184 and 193: the value of the call is the value of compute_transparent
TransparentAfterCall ==
    /\ status = "running" /\ stack # <<>>
    /\ Top.fn = "compute_transparent" /\ Top.pc \in {"mirrored", "recursed"}
    /\ DoReturn(<<>>, ret.value, 0)
    /\ UNCHANGED <<animVars, sceneVars, query, pixelVars, top>>


\* scene.rs:217-220
phong_p(intersection) == IF intersection.material.phong THEN <<1, 2>> ELSE ROne

\* a choice of the Phong lobe that needs a draw above p
phong_branch_above(intersection, rand) ==
    intersection.material.phong /\ RLt(phong_p(intersection), rand)

\* scene.rs:224
phong_branch(intersection, rand) ==
    intersection.material.phong /\ RLe(phong_p(intersection), rand)

\* scene.rs:225-241: the rays the draws can give
indirect_rays(ray, intersection, rand) ==
    IF phong_branch(intersection, rand)
    THEN new_rand_ray_phong(get_point_nudged(intersection),
                            intersection.material.phong_exponent,
                            reflect(ray, intersection).direction)
    ELSE new_rand_ray(get_point_nudged(intersection), intersection.normal)

\* scene.rs:235-240, the two early returns of the Phong lobe
lobe_rejects(ray, intersection, new_ray) ==
    \/ dot(new_ray.direction, intersection.normal) <= 0
    \/ dot(new_ray.direction, reflect(ray, intersection).direction) <= 0

\* scene.rs:251-281: the estimator weight applied to the radiance of new_ray
indirect_weighted(ray_, intersection_, new_ray_, branch, indirect_intensity_) ==
    Eval({
        Eval({
            Eval({
                Eval({
                    IF branch
                    THEN RV_div(RV_div(RV_mul_color(RV_mul(RV_mul(RV_mul(indirect_intensity,
                                                                         proba_diffuse),
                                                                  R(e + 2)),
                                                           lobe),
                                                    RV(intersection.material.specular_color)),
                                       two_pi),
                                proba)
                    ELSE RV_div(RV_div(RV_mul_color(RV_mul(indirect_intensity, proba_diffuse),
                                                    RV(intersection.material.color)),
                                       two_pi),
                                proba)
                    : proba \in {
                          LET proba_phong == RMul(R(e + 1), lobe)
                          IN  RAdd(RMul(p, proba_diffuse), RMul(RSub(ROne, p), proba_phong)) } })
                : lobe \in { RPow(R(dot(new_ray.direction, reflected_ray.direction)), e) } })
            : reflected_ray \in { reflect(ray, intersection) },
              e \in { intersection.material.phong_exponent },
              p \in { phong_p(intersection) },
              proba_diffuse \in { R(dot(intersection.normal, new_ray.direction)) },
              two_pi \in { RMul(R(2), PI) } })
        : ray \in {ray_}, intersection \in {intersection_},
          new_ray \in {new_ray_}, indirect_intensity \in {indirect_intensity_} })

\* scene.rs:211-215, the one draw `rand` of the call
IndirectDraw ==
    /\ Running("compute_indirect", "enter")
    /\ \E rand \in Rands :
          stack' = [stack EXCEPT ![Len(stack)].pc = "drawn", ![Len(stack)].rand = rand]
    /\ UNCHANGED <<ret, status, nqueries>>
    /\ UNCHANGED <<animVars, sceneVars, query, pixelVars, top>>

\* scene.rs:217-249 up to the recursive call
IndirectEnter ==
    /\ Running("compute_indirect", "drawn")
    /\ \E rand \in { Top.rand } :
        \E new_ray \in indirect_rays(Top.ray, Top.intersection, rand) :
            \E branch \in { phong_branch(Top.intersection, rand) } :
                IF branch /\ lobe_rejects(Top.ray, Top.intersection, new_ray)
                THEN DoReturn(<<>>, RV_zero, 0)
                ELSE \E new_intersection \in { compute_intersection(objects, new_ray, top.time) } :
                         IF is_some(new_intersection)
                         THEN DoRecurse([Top EXCEPT !.pc = "recursed", !.new_ray = new_ray,
                                                    !.branch = branch],
                                        new_ray, unwrap(new_intersection), 1)
                         ELSE DoReturn(<<>>, RV_zero, 1)
    /\ UNCHANGED <<animVars, sceneVars, query, pixelVars, top>>

\* scene.rs:249-286
IndirectAfterIntensity ==
    /\ Running("compute_indirect", "recursed")
    /\ DoReturn(<<>>,
                RV_add(RV_zero, indirect_weighted(Top.ray, Top.intersection, Top.new_ray,
                                                  Top.branch, ret.value)),
                0)
    /\ UNCHANGED <<animVars, sceneVars, query, pixelVars, top>>


----------------------------------------------------------------------------
(* The scenes, rays and times of the top-level calls *)

\* a material built field by field (the fields of Material are public)
mirror_and_glass == Material_new(Color_white, TRUE, Color_white, TRUE, 2, FALSE, 0, FALSE, 1)

lamp == Sphere_new(<<-10, 0, 0>>, 2, create_emissive(Color_white, 8))
bulb == Sphere_new(<<5, 0, 0>>, 2, create_emissive(Color_white, 8))

TraceInputs ==
    { \* a mirror facing a diffuse sphere lit by a point light that has moved to (4,0,0)
      [objects |-> << Sphere_new(<<20, 0, 0>>, 3, create_mirror(Color_white)),
                      Sphere_new(<<-10, 0, 0>>, 2, create_diffuse(Color_red)) >>,
       lights |-> << with_animation(Light_new(<<2, 0, 0>>, RV(<<100, 100, 100>>)),
                                    Animation_translation(0, 1, <<2, 0, 0>>)) >>,
       light_objects |-> <<>>, show_emissive_surfaces |-> FALSE,
       ray |-> Ray_new(<<0, 0, 0>>, <<1, 0, 0>>), time |-> 2],
      \* the same scene seen by a ray that hits nothing
      [objects |-> << Sphere_new(<<20, 0, 0>>, 3, create_mirror(Color_white)),
                      Sphere_new(<<-10, 0, 0>>, 2, create_diffuse(Color_red)) >>,
       lights |-> << Light_new(<<4, 0, 0>>, RV(<<100, 100, 100>>)) >>,
       light_objects |-> <<>>, show_emissive_surfaces |-> FALSE,
       ray |-> Ray_new(<<0, 0, 0>>, <<0, 1, 0>>), time |-> 0],
      \* a sphere that is mirror and transparent, lights on both sides
      [objects |-> << Sphere_new(<<20, 0, 0>>, 3, mirror_and_glass),
                      Sphere_new(<<-10, 0, 0>>, 2, create_diffuse(Color_red)) >>,
       lights |-> << Light_new(<<4, 0, 0>>, RV(<<100, 100, 100>>)),
                     Light_new(<<30, 0, 0>>, RV(<<100, 100, 100>>)) >>,
       light_objects |-> <<>>, show_emissive_surfaces |-> FALSE,
       ray |-> Ray_new(<<0, 0, 0>>, <<1, 0, 0>>), time |-> 0],
      \* a Phong sphere and a visible emissive sphere under a spherical light
      [objects |-> << Sphere_new(<<20, 0, 0>>, 3, create_phong(Color_black, Color_white, 1)),
                      lamp >>,
       lights |-> <<>>,
       light_objects |-> << bulb >>, show_emissive_surfaces |-> TRUE,
       ray |-> Ray_new(<<0, 0, 0>>, <<1, 0, 0>>), time |-> 0],
      \* a ray grazing a glass sphere of radius 1 (total internal reflection)
      [objects |-> << Sphere_new(<<0, 0, 0>>, 1, create_transparent(Color_white, 2)),
                      Sphere_new(<<10, 0, 0>>, 1, create_diffuse(Color_white)),
                      Sphere_new(<<10, 3, 0>>, 1, create_diffuse(Color_white)) >>,
       lights |-> <<>>,
       light_objects |-> <<>>, show_emissive_surfaces |-> FALSE,
       ray |-> Ray_new(<<-5, 1, 0>>, <<1, 0, 0>>), time |-> 0],
      \* a pane-like sphere (n_object 1, no bending) moving along the ray
      [objects |-> << with_animation(
                          Sphere_new(<<20, 0, 0>>, 3, create_transparent(Color_white, 1)),
                          Animation_translation(0, 2, <<4, 0, 0>>)) >>,
       lights |-> <<>>,
       light_objects |-> <<>>, show_emissive_surfaces |-> FALSE,
       ray |-> Ray_new(<<0, 0, 0>>, <<1, 0, 0>>), time |-> 1] }

\* A behaviour is one top-level call on one scene: compute_intensity as
\* render_one_frame calls it, or compute_mirror called directly.
TraceInit ==
    /\ AnimIdle /\ QueryIdle /\ PixelIdle
    /\ \E input \in TraceInputs :
        /\ objects = input.objects /\ lights = input.lights
        /\ light_objects = input.light_objects
        /\ show_emissive_surfaces = input.show_emissive_surfaces
        /\ last_show_arg = IF input.show_emissive_surfaces THEN Some(TRUE) ELSE None
        /\ \E entry \in {"compute_intensity", "compute_mirror"}, n \in 0..MaxIter :
            top = [entry |-> entry, ray |-> input.ray, nb_iter_max |-> n, time |-> input.time]
    /\ stack = <<>> /\ ret = NoReturn /\ status = "idle" /\ nqueries = 0

\* lib.rs:107-112
RenderSample ==
    /\ status = "idle" /\ top.entry = "compute_intensity"
    /\ \E intersection \in { compute_intersection(objects, top.ray, top.time) } :
           IF is_some(intersection)
           THEN /\ stack' = << Frame("compute_intensity", top.ray, unwrap(intersection),
                                     top.nb_iter_max) >>
                /\ status' = "running"
                /\ ret' = ret
           ELSE /\ stack' = stack
                /\ status' = "done"
                /\ ret' = [fn |-> "render_one_frame", value |-> RV_zero]
    /\ UNCHANGED <<animVars, sceneVars, query, pixelVars, top, nqueries>>

\* a direct call of the public compute_mirror on the intersection of a ray
CallMirror ==
    /\ status = "idle" /\ top.entry = "compute_mirror"
    /\ \E intersection \in { compute_intersection(objects, top.ray, top.time) } :
           /\ is_some(intersection)
           /\ stack' = << Frame("compute_mirror", top.ray, unwrap(intersection),
                                top.nb_iter_max) >>
    /\ status' = "running"
    /\ UNCHANGED <<animVars, sceneVars, query, pixelVars, top, nqueries, ret>>

TraceNext ==
    \/ RenderSample \/ CallMirror
    \/ IntensityEnter \/ IntensityAfterMirror \/ IntensityAfterTransparent
    \/ IntensityAfterIndirect
    \/ MirrorEnter \/ MirrorAfterIntensity
    \/ TransparentEnter \/ TransparentAfterCall
    \/ IndirectDraw \/ IndirectEnter \/ IndirectAfterIntensity

SpecTrace == TraceInit /\ [][TraceNext]_vars

\* the program keeps running: a call in progress takes its next step
SpecTraceFair == SpecTrace /\ WF_vars(TraceNext)


----------------------------------------------------------------------------
(* Claims on the radiance estimator *)

IntensityFrames == { i \in 1..Len(stack) : stack[i].fn = "compute_intensity" }

NonNegative(v) == \A c \in 1..3 : RLe(RZero, v[c])

\* C1: compute_intensity called with nb_iter_max = 0 returns the zero vector
\* without querying the scene or recursing, and never fails: no activation
\* is pushed over it, no query is counted, every activation with counter 0
\* returns zero.
C1_ZeroAtDepthZero ==
    /\ (top.entry = "compute_intensity" /\ top.nb_iter_max = 0) =>
           /\ nqueries = 0
           /\ Len(stack) <= 1
           /\ status # "panic"
           /\ (status = "done" => ret.value = RV_zero)
    /\ (ret.fn = "compute_intensity" /\ ret.nb_iter_max = 0) =>
           (ret.value = RV_zero /\ ret.terms = <<>>)
    /\ \A i \in IntensityFrames : stack[i].nb_iter_max = 0 => i = Len(stack)

\* the call with counter 0 has returned, on a mirror in a scene with lights
C1_Witness ==
    /\ top.entry = "compute_intensity" /\ top.nb_iter_max = 0
    /\ status = "done" /\ ret.fn = "compute_intensity"
    /\ ret.intersection.material.mirror /\ lights # <<>>
    /\ ret.value = RV_zero

\* the counters of the activations of one top-level compute_intensity: every
\* compute_intensity activation runs with the counter of the compute_intensity
\* activation that spawned it minus one, the term activations in between run
\* with the counter of their caller, and at most nb_iter_max recursions nest
CounterDecreases ==
    /\ \A i \in 2..Len(stack) :
           stack[i].nb_iter_max =
               IF stack[i].fn = "compute_intensity"
               THEN stack[i - 1].nb_iter_max - 1 ELSE stack[i - 1].nb_iter_max
    /\ \A i \in IntensityFrames :
           stack[i].nb_iter_max = top.nb_iter_max - Cardinality({ j \in IntensityFrames : j < i })
    /\ Cardinality(IntensityFrames) <= top.nb_iter_max + 1
    /\ status # "panic"

\* C2: every top-level call compute_intensity(ray, inter, n, time) terminates:
\* each recursive call made from the mirror, transparent (with its fallback
\* through compute_mirror) and indirect terms has a counter exactly one
\* smaller than its spawning call, so the depth is at most n.
C2_Terminates ==
    (top.entry = "compute_intensity") => ([]CounterDecreases /\ <>(status = "done"))

\* a recursion through the fallback of compute_transparent into compute_mirror,
\* two levels below the top-level call
C2_Witness ==
    /\ top.entry = "compute_intensity"
    /\ \E i \in 1..Len(stack) :
        /\ i + 2 <= Len(stack)
        /\ stack[i].fn = "compute_transparent"
        /\ stack[i + 1].fn = "compute_mirror"
        /\ stack[i + 2].fn = "compute_intensity"
    /\ Cardinality(IntensityFrames) = 3

\* C3: compute_mirror(ray, inter, 0, time) yields the zero vector for every
\* scene and intersection, a mirror whose reflected ray hits an object included.
C3_MirrorZeroAtDepthZero ==
    (top.entry = "compute_mirror" /\ top.nb_iter_max = 0) =>
        /\ status # "panic"
        /\ IntensityFrames = {}
        /\ (status = "done" => ret.value = RV_zero)

\* C4: each component of the vector compute_intensity returns is >= 0 (and
\* is no NaN), whatever the terms were before their clamp.
C4_NonNegativeRadiance ==
    /\ ret.fn = "compute_intensity" => NonNegative(ret.value)
    /\ (status = "done" /\ top.entry = "compute_intensity") => NonNegative(ret.value)

\* a top-level call has returned a sum one of whose terms was negative before
\* its clamp
C4_Witness ==
    /\ status = "done" /\ top.entry = "compute_intensity"
    /\ ret.fn = "compute_intensity"
    /\ \E k \in 1..Len(ret.terms), c \in 1..3 : RLt(ret.terms[k][c], RZero)

\* the sum, in the order of the code, of the terms clamped to >= 0
RECURSIVE ClampedSum(_, _)
ClampedSum(terms, k) ==
    IF k = 0 THEN RV_zero
    ELSE LET before == ClampedSum(terms, k - 1)
             t == terms[k]
             clamp(c) == IF RIsNaN(t[c]) \/ RLt(t[c], RZero) THEN RZero ELSE t[c]
         IN  <<RAdd(before[1], clamp(1)), RAdd(before[2], clamp(2)), RAdd(before[3], clamp(3))>>

\* C5: for nb_iter_max >= 1 compute_intensity returns the sum of the six
\* terms (point-light, mirror, transparent, emissive, indirect, direct), each
\* clamped to >= 0; every term is evaluated for the intersection and counter
\* of the call whatever the flags are, and a term whose flag (mirror,
\* transparent, emissive) is off is exactly zero.
C5_SumOfSixTerms ==
    /\ (ret.fn = "compute_intensity" /\ ret.nb_iter_max >= 1) =>
           /\ Len(ret.terms) = 6
           /\ ret.value = ClampedSum(ret.terms, 6)
           /\ ~ret.intersection.material.mirror => ret.terms[2] = RV_zero
           /\ ~ret.intersection.material.transparent => ret.terms[3] = RV_zero
           /\ ~ret.intersection.material.emissive => ret.terms[4] = RV_zero
    /\ \A i \in 2..Len(stack) :
           (stack[i - 1].fn = "compute_intensity" /\ stack[i].pc = "enter") =>
               /\ stack[i].fn = CASE stack[i - 1].pc = "mirror" -> "compute_mirror"
                                  [] stack[i - 1].pc = "transparent" -> "compute_transparent"
                                  [] stack[i - 1].pc = "indirect" -> "compute_indirect"
               /\ stack[i].intersection = stack[i - 1].intersection
               /\ stack[i].nb_iter_max = stack[i - 1].nb_iter_max

\* a material with mirror and transparent both set has received a mirror
\* term and a transparent term, both positive, next to a point-light term
C5_Witness ==
    /\ ret.fn = "compute_intensity" /\ ret.nb_iter_max >= 1
    /\ ret.intersection.material.mirror /\ ret.intersection.material.transparent
    /\ RLt(RZero, ret.terms[2][1]) /\ RLt(RZero, ret.terms[3][1])
    /\ ret.terms[2] # ret.terms[3]
    /\ ret.value = RV_add(RV_add(ret.terms[1], ret.terms[2]), ret.terms[3])

\* the object where its animations have taken it at time: its centre moved
\* by the transforms of its animations one after the other
PlacedAt(obj, time) ==
    [obj EXCEPT
        !.center = InSequence(Ray_new(obj.center, <<1, 0, 0>>), obj.animations, time,
                              Len(obj.animations)).origin,
        !.animations = <<>>]

\* the hits of ray on the objects of the scene where they are at time
WorldHits(ray, time) ==
    { unwrap(hit) : hit \in { Sphere_intersection(PlacedAt(objects[i], time), ray)
                               : i \in 1..Len(objects) } \ {None} }

\* inter is a hit of ray nearest to the origin of ray
IsNearestHit(inter, ray, time) ==
    \E hits \in { WorldHits(ray, time) } :
        /\ inter \in hits
        /\ \A other \in hits :
               norm_sq(Vector_sub(inter.point, ray.origin))
                   <= norm_sq(Vector_sub(other.point, ray.origin))

\* the refraction compute_transparent attempts for the activation frame
RefractedOf(frame) ==
    refract(frame.ray, frame.intersection, 1, frame.intersection.material.n_object,
            FALSE, RZero)

\* what compute_transparent in activation i of the stack has called
TransparentCalls(i) ==
    /\ stack[i].pc = "mirrored" =>
           /\ RefractedOf(stack[i]) = None
           /\ stack[i + 1].fn = "compute_mirror"
           /\ stack[i + 1].ray = stack[i].ray
           /\ stack[i + 1].nb_iter_max = stack[i].nb_iter_max
           /\ stack[i + 1].intersection.material =
                  [stack[i].intersection.material EXCEPT !.mirror = TRUE]
           /\ stack[i + 1].intersection.point = stack[i].intersection.point
           /\ stack[i + 1].intersection.normal =
                  IF dot(stack[i].ray.direction, stack[i].intersection.normal) >= 0
                  THEN Vector_mul(stack[i].intersection.normal, -1)
                  ELSE stack[i].intersection.normal
    /\ stack[i].pc = "recursed" =>
           /\ RefractedOf(stack[i]) # None
           /\ stack[i + 1].fn = "compute_intensity"
           /\ stack[i + 1].ray = unwrap(RefractedOf(stack[i]))
           /\ stack[i + 1].nb_iter_max = stack[i].nb_iter_max - 1

\* the recursive call of compute_transparent in activation i is made at the
\* nearest hit of the refracted ray
TransparentRecursesAtNearest(i) ==
    stack[i].pc = "recursed" =>
        IsNearestHit(stack[i + 1].intersection, stack[i + 1].ray, top.time)

\* the value compute_transparent returns: that of the call it made, as it
\* is, and zero when it made none (not transparent, or the refracted ray
\* hits nothing)
TransparentReturns ==
    (status = "running" /\ stack # <<>> /\ Top.fn = "compute_transparent"
        /\ stack' = SubSeq(stack, 1, Len(stack) - 1)) =>
        ret'.value = IF Top.pc \in {"mirrored", "recursed"} THEN ret.value ELSE RV_zero

\* C15: in compute_transparent, when refraction yields no ray the term is
\* that of compute_mirror on a copy of the intersection with mirror forced to
\* true, the same nb_iter_max, and the normal negated exactly when
\* dot(ray.direction, normal) >= 0; when refraction yields a ray the term is
\* the radiance of compute_intensity at the nearest hit of that ray with
\* nb_iter_max - 1, unweighted, and zero when the refracted ray hits nothing.
C15_TransparentDispatch ==
    /\ [](\A i \in 1..(Len(stack) - 1) :
              stack[i].fn = "compute_transparent" =>
                  TransparentCalls(i) /\ TransparentRecursesAtNearest(i))
    /\ [][TransparentReturns]_vars

\* C30: in every call chain that starts at compute_intensity, with any
\* nb_iter_max >= 0, the subtraction nb_iter_max - 1 of compute_mirror,
\* compute_transparent and compute_indirect is evaluated only with
\* nb_iter_max >= 1: the counter never underflows (no wrap-around, no overflow
\* panic) and every counter passed down by the subtraction is in
\* 0..nb_iter_max - 1.
C30_CounterNeverUnderflows ==
    top.entry = "compute_intensity" =>
        /\ status # "panic"
        /\ \A i \in 1..Len(stack) :
              /\ stack[i].nb_iter_max \in 0..top.nb_iter_max
              /\ stack[i].fn # "compute_intensity" => stack[i].nb_iter_max >= 1
              /\ (i > 1 /\ stack[i].fn = "compute_intensity") =>
                     /\ stack[i].nb_iter_max = stack[i - 1].nb_iter_max - 1
                     /\ stack[i].nb_iter_max \in 0..(top.nb_iter_max - 1)

\* C30 witness: a call of compute_intensity with the largest counter has
\* recursed down to an activation with the counter 0, which compute_indirect
\* called
C30_Witness ==
    /\ top.entry = "compute_intensity" /\ top.nb_iter_max = MaxIter
    /\ \E i \in 2..Len(stack) :
          /\ stack[i].fn = "compute_intensity" /\ stack[i].nb_iter_max = 0
          /\ stack[i - 1].fn = "compute_indirect"

\* the activation of compute_indirect on top returns zero after `queries` more
\* scene queries, without a recursive call
IndirectReturnsZero(queries) ==
    /\ stack' = SubSeq(stack, 1, Len(stack) - 1)
    /\ ret'.fn = "compute_indirect" /\ ret'.value = RV_zero
    /\ nqueries' = nqueries + queries

\* the activation of compute_indirect on top has traced new_ray, found inter
\* and calls compute_intensity on it (or fails on the counter, see C3)
IndirectRecurses(new_ray, inter, lobe) ==
    /\ nqueries' = nqueries + 1
    /\ \/ status' = "panic"
       \/ /\ Len(stack') = Len(stack) + 1
          /\ stack'[Len(stack)].new_ray = new_ray /\ stack'[Len(stack)].branch = lobe
          /\ stack'[Len(stack')].fn = "compute_intensity"
          /\ stack'[Len(stack')].ray = new_ray
          /\ stack'[Len(stack')].intersection = inter

\* what compute_indirect does after its draw u, for the bounce type the claim
\* assigns to u
BounceFollowsDraw ==
    \E u \in { Top.rand }, hit \in { Top.intersection } :
    \E lobe \in { hit.material.phong /\ RLe(<<1, 2>>, u) } :
    \E reflected \in { reflect(Top.ray, hit).direction } :
    \E new_ray \in (IF lobe
                    THEN new_rand_ray_phong(get_point_nudged(hit), hit.material.phong_exponent,
                                            reflected)
                    ELSE new_rand_ray(get_point_nudged(hit), hit.normal)) :
        IF lobe /\ (\/ dot(new_ray.direction, hit.normal) <= 0
                    \/ dot(new_ray.direction, reflected) <= 0)
        THEN IndirectReturnsZero(0)
        ELSE \E found \in { compute_intersection(objects, new_ray, top.time) } :
                 IF found = None
                 THEN IndirectReturnsZero(1)
                 ELSE IndirectRecurses(new_ray, unwrap(found), lobe)

\* C27: compute_indirect chooses the bounce type from one uniform draw u: a
\* non-phong material always takes the diffuse bounce, a phong material takes
\* the Phong-lobe bounce exactly when u >= 0.5 and the diffuse bounce
\* otherwise; a Phong sample whose direction has dot <= 0 with the normal or
\* with the reflected direction returns zero without tracing or recursing,
\* and a sampled ray that hits nothing returns zero.
C27_BounceFromOneDraw ==
    [][Running("compute_indirect", "drawn") => BounceFollowsDraw]_vars

\* C27 witness: on a phong material the draw 0.5 was made and the Phong-lobe
\* sample was traced and is being evaluated
C27_Witness ==
    \E i \in 1..Len(stack) :
        /\ stack[i].fn = "compute_indirect" /\ stack[i].pc = "recursed"
        /\ stack[i].intersection.material.phong
        /\ stack[i].rand = <<1, 2>> /\ stack[i].branch

----------------------------------------------------------------------------
(* lib.rs:89-114, one pixel of render_one_frame: the samples 0..nb_rays of *)
(* the parallel iterator run concurrently on the shared &Scene, each       *)
(* tracing its ray and evaluating the radiance at the hit; the parallel    *)
(* sum folds the results into partial sums and combines the partial sums   *)
(* in whatever order the work is split and stolen; then the sum is divided *)
(* by nb_rays.  A step of a sample is one call on the Scene.               *)

\* the scenes rendered and the primary rays the camera sends through the pixel
PixelInputs ==
    { [objects |-> << Sphere_new(<<20, 0, 0>>, 3, create_mirror(Color_white)),
                      Sphere_new(<<-10, 0, 0>>, 2, create_diffuse(Color_red)) >>,
       lights |-> << Light_new(<<4, 0, 0>>, RV(<<100, 100, 100>>)) >>,
       light_objects |-> <<>>, show_emissive_surfaces |-> FALSE,
       rays |-> { Ray_new(<<0, 0, 0>>, <<1, 0, 0>>), Ray_new(<<0, 0, 0>>, <<-1, 0, 0>>),
                  Ray_new(<<0, 0, 0>>, <<0, 1, 0>>) }],
      [objects |-> << Sphere_new(<<20, 0, 0>>, 3, create_phong(Color_black, Color_white, 1)),
                      lamp >>,
       lights |-> <<>>,
       light_objects |-> << bulb >>, show_emissive_surfaces |-> TRUE,
       rays |-> { Ray_new(<<0, 0, 0>>, <<1, 0, 0>>), Ray_new(<<0, 0, 0>>, <<-1, 0, 0>>),
                  Ray_new(<<0, 0, 0>>, <<0, 1, 0>>) }] }

\* scene.rs:99-133 for nb_iter_max <= 1: the terminal arm, or the sum of the
\* clamped terms, where the mirror, transparent and indirect terms are zero
\* because the calls of compute_intensity they make take the terminal arm
compute_intensity_shallow(ray, intersection, nb_iter_max, time, rand) ==
    IF is_terminal(nb_iter_max)
    THEN { RV_zero }
    ELSE Eval({
             { accumulate(with_emissive, direct) :
                   direct \in compute_direct(objects, light_objects, ray, intersection,
                                             time, rand) }
             : with_emissive \in {
                   accumulate(accumulate(RV_zero,
                                         compute_point_light(objects, lights, intersection, time)),
                              compute_emissive(intersection, show_emissive_surfaces)) } })

\* a combination that forgets the partial sum it merges
sum_reduce_forgetting(partials, i, j) ==
    [k \in 1..(Len(partials) - 1) |-> IF k < j THEN partials[k] ELSE partials[k + 1]]

\* utils.rs:121-128 under the parallel `.sum()` of lib.rs:114: two partial
\* sums are added, the sum takes the place of the first
sum_reduce(partials, i, j) ==
    [k \in 1..(Len(partials) - 1) |->
        IF k = i THEN RV_add(partials[i], partials[j])
        ELSE IF k < j THEN partials[k] ELSE partials[k + 1]]

PixelInit ==
    /\ AnimIdle /\ QueryIdle /\ TraceIdle
    /\ \E input \in PixelInputs, nb_rays \in 1..MaxRays, nb_iter_max \in 0..1, time \in Times :
        /\ objects = input.objects /\ lights = input.lights
        /\ light_objects = input.light_objects
        /\ show_emissive_surfaces = input.show_emissive_surfaces
        /\ last_show_arg = IF input.show_emissive_surfaces THEN Some(TRUE) ELSE None
        /\ px_config = [nb_rays |-> nb_rays, nb_iter_max |-> nb_iter_max, time |-> time,
                        rays |-> input.rays]
        /\ px_samples = [k \in 1..nb_rays |->
                            [pc |-> "start", ray |-> NoRay, intersection |-> None,
                             value |-> RV_zero]]
    /\ px_partials = <<>> /\ px_intensity = None

\* lib.rs:93-109: sample k builds its ray and calls scene.compute_intersection;
\* without a hit its value is Vector::new_eq(0.)
SampleTrace(k) ==
    /\ px_samples[k].pc = "start"
    /\ \E ray \in px_config.rays :
       \E intersection \in { compute_intersection(objects, ray, px_config.time) } :
           px_samples' = [px_samples EXCEPT ![k] =
               [pc |-> IF is_some(intersection) THEN "hit" ELSE "done",
                ray |-> ray, intersection |-> intersection, value |-> RV_zero]]
    /\ UNCHANGED <<animVars, sceneVars, query, traceVars, px_config, px_partials, px_intensity>>

\* lib.rs:110: sample k calls scene.compute_intensity on its hit
SampleIntensity(k) ==
    /\ px_samples[k].pc = "hit"
    /\ \E rand \in Rands :
       \E value \in compute_intensity_shallow(px_samples[k].ray,
                                              unwrap(px_samples[k].intersection),
                                              px_config.nb_iter_max, px_config.time, rand) :
           px_samples' = [px_samples EXCEPT ![k].pc = "done", ![k].value = value]
    /\ UNCHANGED <<animVars, sceneVars, query, traceVars, px_config, px_partials, px_intensity>>

\* lib.rs:114, `.sum()`: the value of sample k is folded from Vector::new_eq(0.)
\* (utils.rs:126) into a partial sum of its own
SampleFold(k) ==
    /\ px_samples[k].pc = "done"
    /\ px_samples' = [px_samples EXCEPT ![k].pc = "summed"]
    /\ px_partials' = Append(px_partials, RV_add(RV_zero, px_samples[k].value))
    /\ UNCHANGED <<animVars, sceneVars, query, traceVars, px_config, px_intensity>>

\* lib.rs:114, `.sum()`: two partial sums are combined
SumCombine ==
    /\ \E i \in 1..Len(px_partials), j \in 1..Len(px_partials) :
          /\ i < j
          /\ px_partials' = sum_reduce(px_partials, i, j)
    /\ UNCHANGED <<animVars, sceneVars, query, traceVars, px_config, px_samples, px_intensity>>

\* lib.rs:115: `intensity / config.nb_rays as f64`, once every sample is in the sum
PixelDivide ==
    /\ px_intensity = None
    /\ px_samples # <<>>
    /\ \A k \in 1..Len(px_samples) : px_samples[k].pc = "summed"
    /\ Len(px_partials) = 1
    /\ px_intensity' = Some(RV_div(px_partials[1], R(px_config.nb_rays)))
    /\ UNCHANGED <<animVars, sceneVars, query, traceVars, px_config, px_samples, px_partials>>

PixelNext ==
    \/ \E k \in 1..Len(px_samples) : SampleTrace(k)
    \/ \E k \in 1..Len(px_samples) : SampleIntensity(k)
    \/ \E k \in 1..Len(px_samples) : SampleFold(k)
    \/ SumCombine
    \/ PixelDivide

SpecPixel == PixelInit /\ [][PixelNext]_vars

----------------------------------------------------------------------------
(* Claims on the samples of a pixel *)

\* the radiances of the samples 1..k added in the order of the samples
RECURSIVE SampleSum(_)
SampleSum(k) ==
    IF k = 0 THEN RV_zero ELSE RV_add(SampleSum(k - 1), px_samples[k].value)

\* C22: under every interleaving of the samples of a pixel no evaluation
\* changes the Scene's objects, lights, light_objects or
\* show_emissive_surfaces, a sample whose primary ray hits nothing has the
\* value zero, and the pixel value is the sum of the samples' radiances
\* divided by nb_rays, whatever the order in which they completed.
C22_PixelIsMeanOfSamples ==
    /\ [][<<objects, lights, light_objects, show_emissive_surfaces>>'
             = <<objects, lights, light_objects, show_emissive_surfaces>>]_vars
    /\ [](\A k \in 1..Len(px_samples) :
              (px_samples[k].pc \in {"done", "summed"} /\ px_samples[k].intersection = None)
                  => px_samples[k].value = RV_zero)
    /\ [](is_some(px_intensity) =>
              unwrap(px_intensity) = RV_div(SampleSum(Len(px_samples)), R(px_config.nb_rays)))

\* C22 witness: two samples, one that hit a lit surface and one that hit
\* nothing, and the pixel computed from both
C22_Witness ==
    /\ is_some(px_intensity)
    /\ Len(px_samples) = 2
    /\ px_samples[1].value # RV_zero
    /\ px_samples[2].intersection = None
    /\ unwrap(px_intensity) # RV_zero

----------------------------------------------------------------------------
(* Calls of the functions that read no Scene state, as the unit tests of   *)
(* utils.rs:452-487 and lib.rs:136-162 make them: a behaviour is one call, *)
(* recorded in query with its arguments and its result.                    *)

\* the draws of rng.gen_range(0.0 .. 1.0) handed to the selection of a light
Draws == { <<0, 1>>, <<1, 4>>, <<1, 2>>, <<3, 4>> }

\* emissive spheres of weight emissivity / surface area 7/44, 7/44 and 7/11
UnitLightObjects ==
    { Sphere_new(<<5, 0, 0>>, 2, create_emissive(Color_white, 8)),
      Sphere_new(<<0, 9, 0>>, 2, create_emissive(Color_red, 8)),
      Sphere_new(<<0, 0, 7>>, 1, create_emissive(Color_white, 8)) }

UnitLightLists ==
    { <<a>> : a \in UnitLightObjects } \cup { <<a, b>> : a, b \in UnitLightObjects }

\* spheres around and next to the origin; the smallest has radius 5e-5
UnitSpheres ==
    { Sphere_new(<<0, 0, 0>>, 10, create_diffuse(Color_white)),
      Sphere_new(<<0, 0, 0>>, 2, create_diffuse(Color_white)),
      Sphere_new(<<4, 0, 0>>, 2, create_diffuse(Color_red)),
      Sphere_new(<<1, 0, 0>>, 1, create_diffuse(Color_red)) }

\* rays from inside, from in front of, from behind and from beside the
\* spheres, along the axes, one of them with a direction of length 2; the
\* last two start inside the largest sphere, off its centre
UnitRays ==
    { Ray_new(origin, direction) :
          origin \in { <<0, 0, 0>>, <<-20, 0, 0>>, <<20, 0, 0>>, <<-20, 10, 0>>,
                       <<-20, 20, 0>>, <<0, 0, -30>> },
          direction \in AxisDirs \cup { <<2, 0, 0>> } }
    \cup { Ray_new(<<6, 0, 0>>, <<1, 0, 0>>), Ray_new(<<6, 0, 0>>, <<-1, 0, 0>>) }

UnitVectors ==
    { <<3, 4, 0>>, <<-4, 5, 2>>, <<1, 0, 0>>, <<0, 0, 0>>, <<4, 3, -2>>, <<1, 1, 1>>,
      <<-1, 0, 2>> }

\* theta_deg of a rotation
UnitAngles == { 0, 90, 180, 270 }

\* <<n_air, n_object>>
UnitIndices == { <<1, 1>>, <<2, 2>>, <<1, 2>> }

UnitInit == SceneEmpty /\ AnimIdle /\ TraceIdle /\ QueryIdle /\ PixelIdle

\* scene.rs:316-337, the light object compute_direct samples for the draw rand
SampleLight ==
    /\ query.op = "none"
    /\ \E lobjs \in UnitLightLists, rand \in Draws :
          query' = [op |-> "sample_light", light_objects |-> lobjs, rand |-> rand,
                    result |-> selected_light(lobjs, rand)]
    /\ UNCHANGED <<sceneVars, animVars, traceVars, pixelVars>>

\* sphere.intersection(ray), as in lib.rs:141-149
Intersect ==
    /\ query.op = "none"
    /\ \E sphere \in UnitSpheres, ray \in UnitRays :
          query' = [op |-> "intersection", sphere |-> sphere, ray |-> ray,
                    result |-> Sphere_intersection(sphere, ray)]
    /\ UNCHANGED <<sceneVars, animVars, traceVars, pixelVars>>

\* the four nudges of a hit sphere.intersection(ray) returned, as in lib.rs:152-161
NudgeHit ==
    /\ query.op = "none"
    /\ \E sphere \in UnitSpheres, ray \in UnitRays :
       \E hit \in { Sphere_intersection(sphere, ray) } :
          /\ is_some(hit)
          /\ query' = [op |-> "nudge", sphere |-> sphere, ray |-> ray,
                       inter |-> unwrap(hit),
                       point_nudged |-> get_point_nudged(unwrap(hit)),
                       point_nudged_neg |-> get_point_nudged_neg(unwrap(hit)),
                       inter_nudged |-> get_inter_nudged(unwrap(hit)),
                       inter_nudged_neg |-> get_inter_nudged_neg(unwrap(hit))]
    /\ UNCHANGED <<sceneVars, animVars, traceVars, pixelVars>>

\* vec1.cross(vec2) and its dot products, as in utils.rs:462-468
CrossDot ==
    /\ query.op = "none"
    /\ \E v \in UnitVectors, w \in UnitVectors :
          query' = [op |-> "cross", v |-> v, w |-> w, result |-> cross(v, w),
                    dot_v |-> dot(cross(v, w), v), dot_w |-> dot(cross(v, w), w)]
    /\ UNCHANGED <<sceneVars, animVars, traceVars, pixelVars>>

\* vec.rotate_x / rotate_y / rotate_z (theta_deg), once and a second time,
\* as in utils.rs:471-478
Rotate ==
    /\ query.op = "none"
    /\ \E v \in UnitVectors, theta_deg \in UnitAngles, axis \in {"x", "y", "z"} :
       \E once \in { CASE axis = "x" -> Vector_rotate_x(v, theta_deg)
                        [] axis = "y" -> Vector_rotate_y(v, theta_deg)
                        [] axis = "z" -> Vector_rotate_z(v, theta_deg) } :
          query' = [op |-> "rotate", axis |-> axis, v |-> v, theta_deg |-> theta_deg,
                    result |-> once,
                    twice |-> CASE axis = "x" -> Vector_rotate_x(once, theta_deg)
                                [] axis = "y" -> Vector_rotate_y(once, theta_deg)
                                [] axis = "z" -> Vector_rotate_z(once, theta_deg)]
    /\ UNCHANGED <<sceneVars, animVars, traceVars, pixelVars>>

\* ray.refract(intersection, n_air, n_object, fresnel) for a unit direction
\* and a unit normal
Refract ==
    /\ query.op = "none"
    /\ \E direction \in AxisDirs, normal \in AxisDirs, n \in UnitIndices,
          fresnel \in BOOLEAN, rand \in Draws :
       \E ray \in { Ray_new(<<0, 0, 0>>, direction) },
          intersection \in { Intersection_new(Vector_mul(direction, 6), normal,
                                               create_transparent(Color_white, n[2])) } :
          query' = [op |-> "refract", ray |-> ray, intersection |-> intersection,
                    n_air |-> n[1], n_object |-> n[2], fresnel |-> fresnel, rand |-> rand,
                    result |-> refract(ray, intersection, n[1], n[2], fresnel, rand)]
    /\ UNCHANGED <<sceneVars, animVars, traceVars, pixelVars>>

\* ray.reflect(intersection) for a unit direction and a unit normal
Reflect ==
    /\ query.op = "none"
    /\ \E direction \in AxisDirs, normal \in AxisDirs :
       \E ray \in { Ray_new(<<0, 0, 0>>, direction) },
          intersection \in { Intersection_new(Vector_mul(direction, 6), normal,
                                               create_mirror(Color_white)) } :
          query' = [op |-> "reflect", ray |-> ray, intersection |-> intersection,
                    result |-> reflect(ray, intersection)]
    /\ UNCHANGED <<sceneVars, animVars, traceVars, pixelVars>>

\* the Animatable components a caller constructs
UnitComponents ==
    { [kind |-> "Sphere", component |-> Sphere_new(<<20, 0, 0>>, 3, create_diffuse(Color_red))],
      [kind |-> "Light", component |-> Light_new(<<4, 0, 0>>, RV(<<100, 100, 100>>))],
      [kind |-> "Camera", component |-> Camera_new_default] }

\* the animations handed to add_animation
UnitAnimations ==
    { Animation_translation(0, 2, <<2, 0, 0>>), Animation_scale(0, 2, 2),
      Animation_rotation_z(1, 1, 180, <<1, 0, 0>>) }

\* the calls made on a component
ComponentOps == {"new", "add_animation", "get_animations"}

\* Sphere::new (sphere.rs:16-23), Light::new (light.rs:12-18), Camera::new_default
\* (camera.rs:24-26); `added` is the history of the add_animation calls
NewComponent ==
    /\ query.op = "none"
    /\ \E c \in UnitComponents :
          query' = [op |-> "new", kind |-> c.kind, component |-> c.component,
                    added |-> <<>>, result |-> None]
    /\ UNCHANGED <<sceneVars, animVars, traceVars, pixelVars>>

\* component.add_animation(animation) (sphere.rs:27-29, light.rs:43-45, camera.rs:33-35)
AddAnimation ==
    /\ query.op \in ComponentOps
    /\ Len(query.added) < MaxAnims
    /\ \E animation \in UnitAnimations :
          query' = [query EXCEPT !.op = "add_animation",
                                 !.component = with_animation(query.component, animation),
                                 !.added = Append(query.added, animation),
                                 !.result = None]
    /\ UNCHANGED <<sceneVars, animVars, traceVars, pixelVars>>

\* component.get_animations() (sphere.rs:31-33, light.rs:47-49, camera.rs:37-39):
\* a clone is returned, the component is borrowed immutably
GetAnimations ==
    /\ query.op \in ComponentOps
    /\ query' = [query EXCEPT !.op = "get_animations",
                              !.result = Some(get_animations(query.component))]
    /\ UNCHANGED <<sceneVars, animVars, traceVars, pixelVars>>

UnitNext ==
    \/ SampleLight
    \/ Intersect \/ NudgeHit
    \/ CrossDot \/ Rotate
    \/ Refract \/ Reflect
    \/ NewComponent \/ AddAnimation \/ GetAnimations

SpecUnit == UnitInit /\ [][UnitNext]_vars

----------------------------------------------------------------------------
(* Claims on the functions that read no Scene state *)

\* the first index whose cumulative weight reaches u * sum(w), 0 if none
InverseCdf(lobjs, u) ==
    Eval({
        IF \E i \in 1..Len(lobjs) : RLe(target, probas_sum(lobjs, i))
        THEN CHOOSE i \in 1..Len(lobjs) :
                 /\ RLe(target, probas_sum(lobjs, i))
                 /\ \A j \in 1..(i - 1) : ~RLe(target, probas_sum(lobjs, j))
        ELSE 0
        : target \in { RMul(u, probas_sum(lobjs, Len(lobjs))) } })

\* C13: for every non-empty list of light objects with positive weights and
\* every draw u in [0,1), compute_direct samples exactly one light object,
\* the first index i with u * sum(w) <= w_0 + ... + w_i.
C13_InverseCdfSampling ==
    query.op = "sample_light" =>
        /\ query.result \in 1..Len(query.light_objects)
        /\ query.result = InverseCdf(query.light_objects, query.rand)

\* the largest parameter t looked at along a ray
MaxRoot == 50

\* the parameters t >= 0 with |o + t*d - c|^2 = r^2
NonNegativeRoots(sphere, ray) ==
    { t \in 0..MaxRoot :
          norm_sq(Vector_sub(get_point(ray, t), sphere.center)) = sphere.radius * sphere.radius }

\* C16: Sphere::intersection returns the point o + t*d for the smallest
\* non-negative root t of |o + t*d - c|^2 = r^2 (the larger root when the
\* smaller one is negative), a point at distance r from c, and None when
\* there is no non-negative root (negative discriminant, or both roots
\* negative).
C16_SmallestNonNegativeRoot ==
    query.op = "intersection" =>
        \E roots \in { NonNegativeRoots(query.sphere, query.ray) } :
            IF roots = {}
            THEN query.result = None
            ELSE /\ is_some(query.result)
                 /\ \E t \in roots :
                       /\ \A u \in roots : t <= u
                       /\ unwrap(query.result).point = get_point(query.ray, t)
                 /\ norm_sq(Vector_sub(unwrap(query.result).point, query.sphere.center))
                        = query.sphere.radius * query.sphere.radius

\* C16 witness: a ray that starts inside the sphere, off its centre, got the
\* hit of the larger root.
C16_Witness ==
    /\ query.op = "intersection"
    /\ query.sphere.center # query.ray.origin
    /\ norm_sq(Vector_sub(query.ray.origin, query.sphere.center))
           < query.sphere.radius * query.sphere.radius
    /\ is_some(query.result)
    /\ unwrap(query.result).point # query.ray.origin

\* C17: for every intersection Sphere::intersection returns on a sphere of
\* radius R and centre C, get_point_nudged is at distance > R from C and
\* get_point_nudged_neg at distance < R from C; get_inter_nudged and
\* get_inter_nudged_neg move the point the same way and keep normal and
\* material.
C17_NudgesOutsideAndInside ==
    query.op = "nudge" =>
        /\ norm_sq(Vector_sub(query.point_nudged, query.sphere.center))
               > query.sphere.radius * query.sphere.radius
        /\ norm_sq(Vector_sub(query.point_nudged_neg, query.sphere.center))
               < query.sphere.radius * query.sphere.radius
        /\ query.inter_nudged = [query.inter EXCEPT !.point = query.point_nudged]
        /\ query.inter_nudged_neg = [query.inter EXCEPT !.point = query.point_nudged_neg]

\* C18: for all vectors v and w, v.cross(w).dot(v) = 0 and v.cross(w).dot(w) = 0.
C18_CrossOrthogonal ==
    query.op = "cross" => (query.dot_v = 0 /\ query.dot_w = 0)

\* C18 witness: the vectors of the test dot_of_cross, whose product is not zero
C18_Witness ==
    /\ query.op = "cross"
    /\ query.v = <<3, 4, 0>> /\ query.w = <<-4, 5, 2>>
    /\ query.result # <<0, 0, 0>>

\* the index of the axis a rotation turns about
AxisIndex(axis) == CASE axis = "x" -> 1 [] axis = "y" -> 2 [] axis = "z" -> 3

\* C19: a rotation by 180 degrees about an axis keeps the component along
\* the axis and negates the two others, so (1,0,0).rotate_y(180) = (-1,0,0),
\* and the same rotation applied twice gives the vector back.
C19_HalfTurn ==
    (query.op = "rotate" /\ query.theta_deg = 180) =>
        /\ \A i \in 1..3 :
               query.result[i] = IF i = AxisIndex(query.axis) THEN query.v[i] ELSE -query.v[i]
        /\ query.twice = query.v

\* C19 witness: the vector of the test rotates, turned about y
C19_Witness ==
    /\ query.op = "rotate" /\ query.theta_deg = 180 /\ query.axis = "y"
    /\ query.v = <<1, 0, 0>> /\ query.result = <<-1, 0, 0>>

\* C20: with n_air = n_object, whenever refract returns a ray its direction
\* is the incoming direction, entering or leaving, and without Fresnel it
\* always returns a ray.
C20_EqualIndicesNeverBend ==
    (query.op = "refract" /\ query.n_air = query.n_object) =>
        /\ is_some(query.result) => unwrap(query.result).direction = query.ray.direction
        /\ ~query.fresnel => is_some(query.result)

\* C20 witness: a ray leaving the object (direction along the normal) with
\* equal indices and no Fresnel test was refracted
C20_Witness ==
    /\ query.op = "refract" /\ query.n_air = query.n_object /\ ~query.fresnel
    /\ dot(query.ray.direction, query.intersection.normal) > 0
    /\ is_some(query.result)

\* the sign of the Snell discriminant 1 - (n1/n2)^2 * (1 - s^2) of the
\* recorded refraction, s = dot(direction, normal): n2^2 times it, with
\* (n1, n2) = (n_object, n_air) when exiting and (n_air, n_object) when entering
DiscriminantSign ==
    \E s \in { dot(query.ray.direction, query.intersection.normal) } :
        IF s >= 0
        THEN query.n_air * query.n_air - query.n_object * query.n_object * (1 - s * s) < 0
        ELSE query.n_object * query.n_object - query.n_air * query.n_air * (1 - s * s) < 0

\* C21: without Fresnel, refract returns no ray exactly when the Snell
\* discriminant is negative (total internal reflection), whatever the draw,
\* and then the outcome is the value None.
C21_NoRayExactlyOnTotalReflection ==
    (query.op = "refract" /\ ~query.fresnel) =>
        /\ (query.result = None) <=> DiscriminantSign
        /\ query.result # None =>
               (is_some(query.result) /\ unwrap(query.result).direction \in AxisDirs)

\* C21 witness: a grazing ray leaving a denser object got no ray, though the
\* draw was 0
C21_Witness ==
    /\ query.op = "refract" /\ ~query.fresnel /\ query.rand = RZero
    /\ query.n_object > query.n_air
    /\ query.result = None

\* C23: for every Animatable component (Sphere, Light, Camera), after any
\* sequence of add_animation calls get_animations returns exactly the
\* animations added, in the order of the calls; a new component has an empty
\* sequence, and get_animations does not change the component's sequence.
C23_AnimationsInCallOrder ==
    query.op \in ComponentOps =>
        /\ query.component.animations = query.added
        /\ query.op = "new" => query.component.animations = <<>>
        /\ query.op = "get_animations" => query.result = Some(query.added)

\* C23 witness: get_animations called on a camera after two different
\* animations were added
C23_Witness ==
    /\ query.op = "get_animations" /\ query.kind = "Camera"
    /\ Len(query.added) = 2 /\ query.added[1] # query.added[2]
    /\ unwrap(query.result) = query.added

\* the hit point of the query moved by k nudges along the normal
QueryNudged(k) ==
    << query.intersection.point[1] + k * Nudge * query.intersection.normal[1],
       query.intersection.point[2] + k * Nudge * query.intersection.normal[2],
       query.intersection.point[3] + k * Nudge * query.intersection.normal[3] >>

\* C28: the ray refract returns starts on the far side of the surface from
\* the incoming ray: for dot(direction, normal) >= 0 (exiting) it is Snell's
\* ray for the indices n_object -> n_air and the negated normal, from the hit
\* point nudged along +normal; for dot(direction, normal) < 0 (entering) it
\* is Snell's ray for n_air -> n_object, from the hit point nudged along
\* -normal; reflect starts at the hit point nudged along +normal.
C28_StartsOnFarSide ==
    /\ (query.op = "refract" /\ query.result # None) =>
           \E s \in { dot(query.ray.direction, query.intersection.normal) },
              start \in { unwrap(query.result).origin } :
               /\ s >= 0 =>
                      /\ start = QueryNudged(1)
                      /\ query.result = snell(query.ray, QueryNudged(1),
                                              Vector_mul(query.intersection.normal, -1),
                                              query.n_object, query.n_air)
               /\ s < 0 =>
                      /\ start = QueryNudged(-1)
                      /\ query.result = snell(query.ray, QueryNudged(-1),
                                              query.intersection.normal,
                                              query.n_air, query.n_object)
               /\ s # 0 =>
                      dot(Vector_sub(start, query.intersection.point), query.ray.direction) > 0
    /\ query.op = "reflect" => query.result.origin = QueryNudged(1)

\* C28 witness: a ray entering a denser medium is refracted and starts
\* inside, below the surface
C28_Witness ==
    /\ query.op = "refract" /\ query.result # None
    /\ dot(query.ray.direction, query.intersection.normal) < 0
    /\ query.n_object > query.n_air
    /\ unwrap(query.result).origin = QueryNudged(-1)
    /\ unwrap(query.result).origin # query.intersection.point

====
